---- MODULE Spec2Model ----
(***************************************************************************)
(* Model of the edge functions: tenant provisioning                        *)
(* (supabase/functions/provision-business/index.ts), and further down the  *)
(* code-editing function (apply-code-changes) and the hero-image backfill  *)
(* (generate-hero-image), each with its own specification.                 *)
(*                                                                         *)
(* Provisioning:                                                           *)
(* One invocation of the serve handler is a process p: its position pc[p]  *)
(* is the await it is suspended at, and one action models the code that    *)
(* runs between two awaits.  The three providers (GitHub, Supabase,        *)
(* Vercel) are the environment: each answers a call with a reply chosen    *)
(* nondeterministically (2xx, non-2xx, unreadable body, rejected fetch).   *)
(***************************************************************************)
EXTENDS Naturals, Sequences, FiniteSets, TLC

VARIABLES
    env,        \* names of the environment variables holding a non-empty value
    slots,      \* invocations the runtime serves (concurrently)
    served,     \* requests received so far
    pc,         \* pc[p]: the await invocation p is suspended at
    req,        \* req[p]: the HTTP request of invocation p
    result,     \* result[p]: the handler's local `result`
    resp,       \* resp[p]: the HTTP response sent, NoResponse until then
    log,        \* log[p]: calls and sleeps issued by invocation p, in order
    pending,    \* pending[p]: calls issued and not yet returned
    loc,        \* loc[p]: other locals (loop index, fetched sha and content)
                \* and the replies the invocation got, kept for the properties
    repos,      \* GitHub: names of the repositories that exist
    projects,   \* Supabase: ids of the backend projects that exist
    hosting,    \* Vercel: names of the hosting projects that exist
    generated,  \* GitHub: names of all generate calls received, in order
    files,      \* GitHub: files[name] is src/config/business.json of repository name
    edit,       \* apply-code-changes: the invocation (position, request, locals,
                \* response)
    tree,       \* apply-code-changes: tree[path] is the file of the edited
                \* repository at path
    commits,    \* apply-code-changes: the reads and writes GitHub received, in
                \* order, each with the change it was issued for and its reply
    backfill,   \* generate-hero-image: backfill[k] is the k-th invocation
                \* (position, request, locals, results)
    jsonFiles,  \* generate-hero-image: services.json and areas.json at GitHub
    media       \* generate-hero-image: the calls the environment received

vars == <<env, slots, served, pc, req, result, resp, log, pending, loc,
          repos, projects, hosting, generated, files, edit, tree, commits,
          backfill, jsonFiles, media>>

provider == <<repos, projects, hosting, generated, files>>

\* the state of the provisioning function
provision == <<env, slots, served, pc, req, result, resp, log, pending, loc, provider>>

\* the state of the code-editing function
editing == <<edit, tree, commits>>

\* the state of the hero-image backfill function
imaging == <<backfill, jsonFiles, media>>

(***************************************************************************)
(* Bounds and input sets                                                   *)
(***************************************************************************)
MaxRequests == 2

\* another writer commits to a config file only below this revision
MaxRevision == 2

Procs == {"r1", "r2"}

Slugs == {"acme", "bolt"}

EnvNames ==
    {"GITHUB_TOKEN", "SUPABASE_ACCESS_TOKEN", "SUPABASE_ORG_ID",
     "VERCEL_TOKEN", "VERCEL_TEAM_ID", "GEMINI_API_KEY"}

\* a property that is absent from a JSON object (JavaScript's undefined)
undefined == "undefined"

Falsy(v) == v \in {undefined, ""}

ProviderMessages == {"Repository creation failed: name already exists"}

NetworkError == "error sending request"

JsonError == "Unexpected token < in JSON"

NullError == "Cannot read properties of null (reading 'businessName')"

(***************************************************************************)
(* JSON documents.  A text is the sequence of the code points of a string, *)
(* a value is a string or an object of strings, a document is the set of   *)
(* the <<key, value>> members of a JSON object.  A file holds a document   *)
(* whose texts are the bytes of their UTF-8 encoding.                      *)
(***************************************************************************)
JsonString(t) == [kind |-> "string", text |-> t, members |-> {}]

JsonObject(m) == [kind |-> "object", text |-> <<>>, members |-> m]

Keys(doc) == {kv[1] : kv \in doc}

Texts(doc) ==
    {kv[2].text : kv \in doc} \cup UNION {{m[2] : m \in kv[2].members} : kv \in doc}

RECURSIVE Utf8Encode(_)
\* the bytes a UTF-8 file holds for a text (code points below 65536)
Utf8Encode(t) ==
    IF t = <<>> THEN <<>>
    ELSE LET c == Head(t)
             bytes == IF c < 128 THEN <<c>>
                      ELSE IF c < 2048 THEN <<192 + (c \div 64), 128 + (c % 64)>>
                      ELSE <<224 + (c \div 4096), 128 + ((c \div 64) % 64),
                             128 + (c % 64)>>
         IN  bytes \o Utf8Encode(Tail(t))

\* atob: the binary string of the decoded bytes, one code unit per byte
atob(bytes) == [i \in 1..Len(bytes) |-> bytes[i]]

\* btoa throws InvalidCharacterError on a code unit above 255
btoaThrows(t) == \E i \in 1..Len(t) : t[i] > 255

\* btoa: one byte per code unit
btoa(t) == [i \in 1..Len(t) |-> t[i]]

RECURSIVE Utf8Decode(_)
\* the text a reader of a UTF-8 file gets from its bytes: a byte that does
\* not start a well-formed sequence reads as U+FFFD
Utf8Decode(b) ==
    IF b = <<>> THEN <<>>
    ELSE LET Continues(i) == i <= Len(b) /\ b[i] >= 128 /\ b[i] < 192
         IN  IF b[1] < 128
             THEN <<b[1]>> \o Utf8Decode(Tail(b))
             ELSE IF b[1] >= 194 /\ b[1] < 224 /\ Continues(2)
             THEN <<(b[1] - 192) * 64 + (b[2] - 128)>>
                      \o Utf8Decode(SubSeq(b, 3, Len(b)))
             ELSE IF b[1] >= 224 /\ b[1] < 240 /\ Continues(2) /\ Continues(3)
             THEN <<(b[1] - 224) * 4096 + (b[2] - 128) * 64 + (b[3] - 128)>>
                      \o Utf8Decode(SubSeq(b, 4, Len(b)))
             ELSE <<65533>> \o Utf8Decode(Tail(b))

\* a conversion of a text, by name
Convert(how, t) ==
    CASE how = "Utf8Encode" -> Utf8Encode(t)
      [] how = "Utf8Decode" -> Utf8Decode(t)
      [] how = "atob" -> atob(t)
      [] how = "btoa" -> btoa(t)

\* a document with every text converted
MapDoc(doc, how) ==
    {<<kv[1], [kind |-> kv[2].kind, text |-> Convert(how, kv[2].text),
               members |-> {<<m[1], Convert(how, m[2])>> : m \in kv[2].members}]>> :
        kv \in doc}

\* the document of the template repository: name "Tmpl", tagline "Ole" with
\* an acute e (U+00E9), branding {color: "blue", font: "serif"}
TemplateDoc ==
    {<<"name", JsonString(<<84, 109, 112, 108>>)>>,
     <<"tagline", JsonString(<<79, 108, 233>>)>>,
     <<"branding", JsonObject({<<"color", <<98, 108, 117, 101>>>>,
                               <<"font", <<115, 101, 114, 105, 102>>>>})>>}

\* what another writer of the file (the CMS sync) changes: phone "555"
OtherEdit == {<<"phone", JsonString(<<53, 53, 53>>)>>}

(***************************************************************************)
(* Requests                                                                *)
(***************************************************************************)
NoConfig == [given |-> FALSE, doc |-> {}]

\* name "Acme", branding {color: "red"}
AsciiConfig ==
    [given |-> TRUE,
     doc |-> {<<"name", JsonString(<<65, 99, 109, 101>>)>>,
              <<"branding", JsonObject({<<"color", <<114, 101, 100>>>>})>>}]

\* name "Cafe" with an acute e (U+00E9)
Latin1Config ==
    [given |-> TRUE, doc |-> {<<"name", JsonString(<<67, 97, 102, 233>>)>>}]

\* name "Acme" followed by the trade mark sign (U+2122)
WideConfig ==
    [given |-> TRUE, doc |-> {<<"name", JsonString(<<65, 99, 109, 101, 8482>>)>>}]

BusinessConfigs == {AsciiConfig}

NoBody(kind) ==
    [kind |-> kind, businessName |-> undefined, businessSlug |-> undefined,
     ownerEmail |-> undefined, businessConfig |-> NoConfig]

ObjectBodies ==
    [kind : {"object"},
     businessName : {undefined, "", "Acme Plumbing"},
     businessSlug : {undefined, ""} \cup Slugs,
     ownerEmail : {undefined, "", "owner@acme.test"},
     businessConfig : {NoConfig} \cup BusinessConfigs]

\* body kinds: "malformed" is not JSON, "null" is the JSON value null,
\* "scalar" any other JSON value that is not an object
Bodies == ObjectBodies \cup {NoBody("malformed"), NoBody("null"), NoBody("scalar")}

Requests ==
    [method : {"POST"}, body : Bodies]
        \cup {[method |-> "OPTIONS", body |-> NoBody("malformed")]}

\* requests for one and the same slug
SameSlugRequests ==
    [method : {"POST"},
     body : [kind : {"object"}, businessName : {"Acme Plumbing"},
             businessSlug : {"acme"}, ownerEmail : {"owner@acme.test"},
             businessConfig : {NoConfig, AsciiConfig}]]

\* requests that carry a business config, of any of the three kinds
ConfigRequests ==
    [method : {"POST"},
     body : [kind : {"object"}, businessName : {"Acme Plumbing"},
             businessSlug : {"acme"}, ownerEmail : {"owner@acme.test"},
             businessConfig : {AsciiConfig, Latin1Config, WideConfig}]]

NoRequest == [method |-> "", body |-> NoBody("malformed")]

(***************************************************************************)
(* ProvisionResult and the HTTP response                                   *)
(***************************************************************************)
NoGithub == [has |-> FALSE, repoUrl |-> "", repoName |-> ""]

NoSupabase == [has |-> FALSE, projectId |-> "", projectUrl |-> "", anonKey |-> ""]

NoVercel == [has |-> FALSE, projectId |-> "", deploymentUrl |-> ""]

ProvisionResult ==
    [success |-> FALSE, github |-> NoGithub, supabase |-> NoSupabase,
     vercel |-> NoVercel]

NoResponse == [status |-> 0, kind |-> "none", error |-> "", result |-> ProvisionResult]

ErrorResponse(status, message) ==
    [status |-> status, kind |-> "error", error |-> message, result |-> ProvisionResult]

ResultResponse(res) ==
    [status |-> 200, kind |-> "result", error |-> "", result |-> res]

PreflightResponse ==
    [status |-> 200, kind |-> "empty", error |-> "", result |-> ProvisionResult]

\* the top-level keys of the JSON body of a response
BodyKeys(r) ==
    IF r.kind = "error" THEN {"error"}
    ELSE IF r.kind = "result"
    THEN {"success"}
            \cup (IF r.result.github.has THEN {"github"} ELSE {})
            \cup (IF r.result.supabase.has THEN {"supabase"} ELSE {})
            \cup (IF r.result.vercel.has THEN {"vercel"} ELSE {})
    ELSE {}

\* the handler's other locals, and what the providers answered
NoLocals ==
    [i |-> 0, sha |-> "", dataId |-> "", hostingId |-> "",
     githubReply |-> "none", githubMessage |-> "", backendReply |-> "none",
     keysReply |-> "none", hostingReply |-> "none", deployReply |-> "none",
     deployUrl |-> "", deployLost |-> FALSE, content |-> {}, putReply |-> "none",
     created |-> {}]

(***************************************************************************)
(* External calls (the events of log) and the providers' replies           *)
(***************************************************************************)
templateOwner == "FastFix-SF"

RepoReadyWaitMs == 5000

ProjectReadyWaitMs == 30000

newRepoName(slug) == slug \o "-app"

\* the html_url GitHub reports for a repository it created
HtmlUrl(name) == "https://github.com/" \o templateOwner \o "/" \o name

GenerateCall(name) == [api |-> "github", op |-> "generate", name |-> name]

GetConfigCall(repo) == [api |-> "github", op |-> "getConfig", name |-> repo]

PutConfigCall(repo, sha, content) ==
    [api |-> "github", op |-> "putConfig", name |-> repo, sha |-> sha,
     content |-> content]

CreateProjectCall(name) == [api |-> "supabase", op |-> "createProject", name |-> name]

ListKeysCall(id) == [api |-> "supabase", op |-> "listKeys", project |-> id]

SetSecretCall(id, name) ==
    [api |-> "supabase", op |-> "setSecret", project |-> id, name |-> name]

HostingProjectCall(name, gitRepoUrl, envVars) ==
    [api |-> "vercel", op |-> "createProject", name |-> name, repo |-> gitRepoUrl,
     environmentVariables |-> envVars]

DeploymentCall(name, projectId) ==
    [api |-> "vercel", op |-> "createDeployment", name |-> name, project |-> projectId]

Sleep(ms) == [api |-> "timer", op |-> "sleep", ms |-> ms]

\* A reply to a fetch.  thrown: the fetch rejected (no response); ok: a 2xx
\* status; readable: response.json() resolves; performed: the provider
\* carried the operation out (always on 2xx, never on non-2xx, possibly when
\* the connection broke); message: the error message of a non-2xx body.
Replies ==
    {r \in [thrown : BOOLEAN, ok : BOOLEAN, readable : BOOLEAN,
            performed : BOOLEAN, message : {""} \cup ProviderMessages] :
        /\ r.thrown => (~r.ok /\ ~r.readable)
        /\ r.ok => r.performed
        /\ (~r.thrown /\ ~r.ok) => ~r.performed
        /\ (r.ok \/ ~r.readable) => r.message = ""}

\* GitHub refuses to generate a repository whose name is taken
GenerateReplies(name) == {r \in Replies : r.performed => name \notin repos}

\* Vercel refuses to create a project whose name is taken
HostingProjectReplies(name) == {r \in Replies : r.performed => name \notin hosting}

CreateProjectReplies == Replies

\* the config file a generated repository starts with, and no file
TemplateFile == [rev |-> 1, doc |-> MapDoc(TemplateDoc, "Utf8Encode")]

NoFile == [rev |-> 0, doc |-> {}]

\* the blob sha GitHub reports for a revision of the file
Sha(file) == "sha-" \o ToString(file.rev)

\* a 2xx reply to the GET carries the sha and the content of the file as it
\* is then; decodable: the content is base64 of a JSON object
GetConfigReplies(name) ==
    {r \in [thrown : BOOLEAN, ok : BOOLEAN, readable : BOOLEAN, decodable : BOOLEAN,
            sha : {"", Sha(files[name])}, content : {{}, files[name].doc}] :
        /\ r.thrown => (~r.ok /\ ~r.readable)
        /\ ~r.readable => ~r.decodable
        /\ ~r.ok => ~r.decodable
        /\ r.sha = (IF r.ok /\ r.readable THEN Sha(files[name]) ELSE "")
        /\ r.content = (IF r.decodable THEN files[name].doc ELSE {})}

\* GitHub performs the PUT only if its sha is the sha of the file as it is
\* then (409 otherwise)
PutConfigReplies(name, sha) ==
    {r \in [thrown : BOOLEAN, ok : BOOLEAN, performed : BOOLEAN] :
        /\ r.thrown => ~r.ok
        /\ r.ok => r.performed
        /\ (~r.thrown /\ ~r.ok) => ~r.performed
        /\ r.performed => sha = Sha(files[name])}

ListKeysReplies ==
    {r \in [thrown : BOOLEAN, ok : BOOLEAN, readable : BOOLEAN,
            anon : {"", "anon-key"}] :
        /\ r.thrown => (~r.ok /\ ~r.readable)
        /\ (~r.ok \/ ~r.readable) => r.anon = ""}

SetSecretReplies ==
    {r \in [thrown : BOOLEAN, ok : BOOLEAN] : r.thrown => ~r.ok}

DeploymentReplies ==
    {r \in [thrown : BOOLEAN, ok : BOOLEAN, readable : BOOLEAN,
            url : {"", "tenant-abc123.vercel.app"}] :
        /\ r.thrown => (~r.ok /\ ~r.readable)
        /\ (~r.ok \/ ~r.readable) => r.url = ""}

\* the id Supabase gives the next project it creates
NewProjectId == "ref" \o ToString(Cardinality(projects) + 1)

\* the id Vercel gives the project it creates under a name
HostingId(name) == "prj_" \o name

(***************************************************************************)
(* The stage functions, as functions of the replies they receive           *)
(***************************************************************************)
\* createGitHubRepo: the value returned for a reply to the generate call
createGitHubRepo(reply, name) ==
    IF reply.thrown
    THEN [success |-> FALSE, repoUrl |-> "", error |-> NetworkError]
    ELSE IF ~reply.readable
    THEN [success |-> FALSE, repoUrl |-> "", error |-> JsonError]
    ELSE IF ~reply.ok
    THEN [success |-> FALSE, repoUrl |-> "",
          error |-> IF reply.message # "" THEN reply.message
                    ELSE "Failed to create repo"]
    ELSE [success |-> TRUE, repoUrl |-> HtmlUrl(name), error |-> ""]

\* createSupabaseProject up to its sleep: the reply to the create call
supabaseCreated(reply) == ~reply.thrown /\ reply.ok /\ reply.readable

\* createSupabaseProject after its sleep: the value returned for a reply to
\* the api-keys call
createSupabaseProject(id, reply) ==
    IF reply.thrown \/ (reply.ok /\ ~reply.readable)
    THEN NoSupabase
    ELSE [has |-> TRUE, projectId |-> id,
          projectUrl |-> "https://" \o id \o ".supabase.co",
          anonKey |-> IF reply.ok THEN reply.anon ELSE ""]

\* createVercelDeployment up to its second fetch
hostingProjectCreated(reply) == ~reply.thrown /\ reply.ok /\ reply.readable

\* createVercelDeployment: the value returned for a reply to the deployment call
createVercelDeployment(projectName, projectId, reply) ==
    IF reply.thrown \/ (reply.ok /\ ~reply.readable)
    THEN NoVercel
    ELSE [has |-> TRUE, projectId |-> projectId,
          deploymentUrl |->
              IF reply.ok /\ reply.url # "" THEN "https://" \o reply.url
              ELSE "https://" \o projectName \o ".vercel.app"]

\* the secrets the handler hands to setSupabaseSecrets, in Object.entries order
secrets == <<"GITHUB_TOKEN", "GITHUB_OWNER", "GITHUB_REPO", "GEMINI_API_KEY">>

(***************************************************************************)
(* The serve handler.  A continuation [pc, ev, res, resp] is where the     *)
(* handler suspends next (pc), the calls and sleeps it issues on the way   *)
(* (ev), its `result` then (res) and the response it sends, if any (resp). *)
(***************************************************************************)
Configured(name) == name \in env

Suspend(at, ev, res) == [pc |-> at, ev |-> ev, res |-> res, resp |-> NoResponse]

Respond(res, response) == [pc |-> "done", ev |-> <<>>, res |-> res, resp |-> response]

\* mutant of Finish: the handler ends without sending the final response
FinishUnanswered(res) ==
    LET final == [res EXCEPT !.success = TRUE]
    IN  Respond(final, NoResponse)

\* mutant of Finish: success reports whether every stage produced its record
FinishStrict(res) ==
    LET final == [res EXCEPT !.success = res.supabase.has /\ res.vercel.has]
    IN  Respond(final, ResultResponse(final))

\* lines 413-420: the final response
Finish(res) ==
    LET final == [res EXCEPT !.success = TRUE]
    IN  Respond(final, ResultResponse(final))

\* mutant of EnterStep3: the backend URL and key are not handed to the build
EnterStep3EmptyEnv(p, res) ==
    IF Configured("VERCEL_TOKEN") /\ Configured("VERCEL_TEAM_ID") /\ res.github.has
    THEN Suspend("awaitHostingProject",
                 <<HostingProjectCall(req[p].body.businessSlug, res.github.repoUrl,
                       [VITE_SUPABASE_URL |-> "", VITE_SUPABASE_ANON_KEY |-> ""])>>,
                 res)
    ELSE Finish(res)

\* mutant of EnterStep3: the deployment stage also waits on the backend record
EnterStep3NeedsBackend(p, res) ==
    IF Configured("VERCEL_TOKEN") /\ Configured("VERCEL_TEAM_ID") /\ res.github.has
          /\ res.supabase.has
    THEN Suspend("awaitHostingProject",
                 <<HostingProjectCall(req[p].body.businessSlug, res.github.repoUrl,
                       [VITE_SUPABASE_URL |-> res.supabase.projectUrl,
                        VITE_SUPABASE_ANON_KEY |-> res.supabase.anonKey])>>,
                 res)
    ELSE Finish(res)

\* lines 391-403: step 3, the gate of the deployment stage and its first call
EnterStep3(p, res) ==
    IF Configured("VERCEL_TOKEN") /\ Configured("VERCEL_TEAM_ID") /\ res.github.has
    THEN Suspend("awaitHostingProject",
                 <<HostingProjectCall(req[p].body.businessSlug, res.github.repoUrl,
                       [VITE_SUPABASE_URL |-> res.supabase.projectUrl,
                        VITE_SUPABASE_ANON_KEY |-> res.supabase.anonKey])>>,
                 res)
    ELSE Finish(res)

\* lines 362-372: step 2, the gate of the backend stage and its first call
EnterStep2(p, res) ==
    IF Configured("SUPABASE_ACCESS_TOKEN") /\ Configured("SUPABASE_ORG_ID")
    THEN Suspend("awaitCreateProject",
                 <<CreateProjectCall(req[p].body.businessSlug)>>, res)
    ELSE EnterStep3(p, res)

\* lines 212-230: updateBusinessConfig up to its first fetch
updateBusinessConfig(p, config, res) ==
    IF ~config.given
    THEN EnterStep2(p, res)
    ELSE Suspend("awaitGetConfig",
                 <<GetConfigCall(newRepoName(req[p].body.businessSlug))>>, res)

\* mutant of EnterConfigWrite: the gate on request.businessConfig is dropped
\* and the file is fetched in any case
EnterConfigWriteAlways(p, res) ==
    Suspend("awaitGetConfig",
            <<GetConfigCall(newRepoName(req[p].body.businessSlug))>>, res)

\* lines 356-360: the config write gate
EnterConfigWrite(p, res) ==
    IF req[p].body.businessConfig.given
    THEN updateBusinessConfig(p, req[p].body.businessConfig, res)
    ELSE EnterStep2(p, res)

\* lines 270-291: setSupabaseSecrets from entry i on; a rejected fetch leaves
\* the loop through the catch
setSupabaseSecrets(p, projectId, names, i, res) ==
    IF i <= Len(names)
    THEN Suspend("awaitSetSecret", <<SetSecretCall(projectId, names[i])>>, res)
    ELSE EnterStep3(p, res)

\* line 302: the required-field validation
MissingFields(body) ==
    Falsy(body.businessName) \/ Falsy(body.businessSlug) \/ Falsy(body.ownerEmail)

\* mutant of MissingTokens: only the source-control token is checked
MissingTokensGithubOnly == ~Configured("GITHUB_TOKEN")

\* line 317: the check of the mandatory tokens
MissingTokens ==
    ~Configured("GITHUB_TOKEN") \/ ~Configured("SUPABASE_ACCESS_TOKEN")
        \/ ~Configured("VERCEL_TOKEN")

\* mutant of StartProvisioning: an existing repository is reused instead of
\* being generated again
StartProvisioningIfAbsent(p, res) ==
    LET name == newRepoName(req[p].body.businessSlug)
    IN  IF name \in repos
        THEN Suspend("wait5", <<Sleep(RepoReadyWaitMs)>>,
                     [res EXCEPT !.github =
                         [has |-> TRUE, repoUrl |-> HtmlUrl(name), repoName |-> name]])
        ELSE Suspend("awaitGenerate", <<GenerateCall(name)>>, res)

\* lines 324-339: step 1, the generate call
StartProvisioning(p, res) ==
    Suspend("awaitGenerate",
            <<GenerateCall(newRepoName(req[p].body.businessSlug))>>, res)

\* lines 293-339: from the request to the first external call; a body that
\* is not JSON makes req.json() throw, the body null makes the validation
\* throw, and the catch of lines 422-429 answers both
Serve(p) ==
    LET body == req[p].body
        res == ProvisionResult
    IN  IF req[p].method = "OPTIONS"
        THEN Respond(res, PreflightResponse)
        ELSE IF body.kind = "malformed"
        THEN Respond(res, ErrorResponse(500, JsonError))
        ELSE IF body.kind = "null"
        THEN Respond(res, ErrorResponse(500, NullError))
        ELSE IF MissingFields(body)
        THEN Respond(res, ErrorResponse(400,
                 "businessName, businessSlug, and ownerEmail are required"))
        ELSE IF MissingTokens
        THEN Respond(res, ErrorResponse(500,
                 "Missing required API tokens (GITHUB_TOKEN, SUPABASE_ACCESS_TOKEN, VERCEL_TOKEN)"))
        ELSE StartProvisioning(p, res)

\* mutant of AfterGenerate: a name that is taken is not an error, the
\* repository that exists is used
AfterGenerateAdopt(p, gh) ==
    IF ~gh.success /\ gh.error \notin ProviderMessages
    THEN Respond(result[p], ErrorResponse(500, "GitHub: " \o gh.error))
    ELSE Suspend("wait5", <<Sleep(RepoReadyWaitMs)>>,
                 [result[p] EXCEPT !.github =
                     [has |-> TRUE,
                      repoUrl |-> HtmlUrl(newRepoName(req[p].body.businessSlug)),
                      repoName |-> newRepoName(req[p].body.businessSlug)]])

\* mutant of AfterGenerate: the early return on failure is missing
AfterGenerateNoAbort(p, gh) ==
    Suspend("wait5", <<Sleep(RepoReadyWaitMs)>>,
            [result[p] EXCEPT !.github =
                [has |-> TRUE, repoUrl |-> gh.repoUrl,
                 repoName |-> newRepoName(req[p].body.businessSlug)]])

\* lines 341-354: after createGitHubRepo returned gh
AfterGenerate(p, gh) ==
    IF ~gh.success
    THEN Respond(result[p], ErrorResponse(500, "GitHub: " \o gh.error))
    ELSE Suspend("wait5", <<Sleep(RepoReadyWaitMs)>>,
                 [result[p] EXCEPT !.github =
                     [has |-> TRUE, repoUrl |-> gh.repoUrl,
                      repoName |-> newRepoName(req[p].body.businessSlug)]])

\* lines 237-240: {...currentContent, ...config}
Spread(currentContent, config) ==
    config \cup {kv \in currentContent : kv[1] \notin Keys(config)}

\* mutant of AfterGetConfig: the PUT carries the sha of the template's file
\* instead of the sha the GET returned
AfterGetConfigTemplateSha(p, reply) ==
    IF reply.thrown \/ ~reply.ok \/ ~reply.readable \/ ~reply.decodable
    THEN EnterStep2(p, result[p])
    ELSE LET currentContent == MapDoc(reply.content, "atob")
             updatedContent == Spread(currentContent, req[p].body.businessConfig.doc)
         IN  IF \E t \in Texts(updatedContent) : btoaThrows(t)
             THEN EnterStep2(p, result[p])
             ELSE Suspend("awaitPutConfig",
                          <<PutConfigCall(newRepoName(req[p].body.businessSlug),
                                          Sha(TemplateFile),
                                          MapDoc(updatedContent, "btoa"))>>,
                          result[p])

\* lines 232-260: updateBusinessConfig after the GET returned; JSON.parse of
\* something that is not JSON and btoa of a code unit above 255 throw, and
\* the catch returns false
AfterGetConfig(p, reply) ==
    IF reply.thrown \/ ~reply.ok \/ ~reply.readable \/ ~reply.decodable
    THEN EnterStep2(p, result[p])
    ELSE LET currentContent == MapDoc(reply.content, "atob")
             updatedContent == Spread(currentContent, req[p].body.businessConfig.doc)
         IN  IF \E t \in Texts(updatedContent) : btoaThrows(t)
             THEN EnterStep2(p, result[p])
             ELSE Suspend("awaitPutConfig",
                          <<PutConfigCall(newRepoName(req[p].body.businessSlug),
                                          reply.sha, MapDoc(updatedContent, "btoa"))>>,
                          result[p])

\* mutant of AfterPutConfig: a rejected PUT fetches the file again
AfterPutConfigRetry(p, reply) ==
    IF reply.ok
    THEN EnterStep2(p, result[p])
    ELSE Suspend("awaitGetConfig",
                 <<GetConfigCall(newRepoName(req[p].body.businessSlug))>>, result[p])

\* mutant of AfterPutConfig: a rejected PUT ends the provisioning there
AfterPutConfigAbort(p, reply) ==
    IF reply.ok
    THEN EnterStep2(p, result[p])
    ELSE Finish(result[p])

\* lines 262-266: updateBusinessConfig after the PUT returned; the handler
\* drops the boolean
AfterPutConfig(p, reply) == EnterStep2(p, result[p])

\* mutant of AfterCreateProject: a failed creation aborts the request
AfterCreateProjectFatal(p, reply) ==
    IF supabaseCreated(reply)
    THEN Suspend("wait30", <<Sleep(ProjectReadyWaitMs)>>, result[p])
    ELSE Respond(result[p], ErrorResponse(500, "Supabase: Failed to create Supabase project"))

\* mutant of AfterCreateProject: the api keys are queried without the wait
AfterCreateProjectNoWait(p, reply) ==
    IF supabaseCreated(reply)
    THEN Suspend("awaitListKeys", <<ListKeysCall(NewProjectId)>>, result[p])
    ELSE EnterStep3(p, result[p])

\* mutant of AfterCreateProject: a failed creation leaves an empty supabase
\* record in the result
AfterCreateProjectEmptyRecord(p, reply) ==
    IF supabaseCreated(reply)
    THEN Suspend("wait30", <<Sleep(ProjectReadyWaitMs)>>, result[p])
    ELSE EnterStep3(p, [result[p] EXCEPT !.supabase =
                           [has |-> TRUE, projectId |-> "", projectUrl |-> "",
                            anonKey |-> ""]])

\* lines 106-114: createSupabaseProject after the create call returned
AfterCreateProject(p, reply) ==
    IF supabaseCreated(reply)
    THEN Suspend("wait30", <<Sleep(ProjectReadyWaitMs)>>, result[p])
    ELSE EnterStep3(p, result[p])

\* lines 116-119: the api-keys call
AfterProjectWait(p) == Suspend("awaitListKeys", <<ListKeysCall(loc[p].dataId)>>, result[p])

\* mutant of AfterListKeys: the secrets are written to the project named by
\* the slug instead of the id the creation returned
AfterListKeysBySlug(p, reply) ==
    LET sb == createSupabaseProject(loc[p].dataId, reply)
    IN  IF sb.has
        THEN setSupabaseSecrets(p, req[p].body.businessSlug, secrets, 1,
                                [result[p] EXCEPT !.supabase = sb])
        ELSE EnterStep3(p, result[p])

\* lines 121-136 and 374-387: after the api-keys call returned
AfterListKeys(p, reply) ==
    LET sb == createSupabaseProject(loc[p].dataId, reply)
    IN  IF sb.has
        THEN setSupabaseSecrets(p, sb.projectId, secrets, 1,
                                [result[p] EXCEPT !.supabase = sb])
        ELSE EnterStep3(p, result[p])

\* mutant of AfterSetSecret: a write answered non-2xx is issued again
AfterSetSecretRetry(p, reply) ==
    IF reply.thrown
    THEN EnterStep3(p, result[p])
    ELSE setSupabaseSecrets(p, result[p].supabase.projectId, secrets,
                            IF reply.ok THEN loc[p].i + 1 ELSE loc[p].i, result[p])

\* lines 276-290: after the write of secret loc[p].i returned
AfterSetSecret(p, reply) ==
    IF reply.thrown
    THEN EnterStep3(p, result[p])
    ELSE setSupabaseSecrets(p, result[p].supabase.projectId, secrets,
                            loc[p].i + 1, result[p])

\* mutant of AfterHostingProject: a failed hosting project deletes the repository
AfterHostingProjectCompensate(p, reply) ==
    IF hostingProjectCreated(reply)
    THEN Suspend("awaitDeployment",
                 <<DeploymentCall(req[p].body.businessSlug,
                                  HostingId(req[p].body.businessSlug))>>,
                 result[p])
    ELSE [pc |-> "done",
          ev |-> <<[api |-> "github", op |-> "deleteRepo",
                    name |-> result[p].github.repoName]>>,
          res |-> [result[p] EXCEPT !.success = TRUE],
          resp |-> ResultResponse([result[p] EXCEPT !.success = TRUE])]

\* mutant of AfterHostingProject: a failed hosting project aborts the request
AfterHostingProjectFatal(p, reply) ==
    IF hostingProjectCreated(reply)
    THEN Suspend("awaitDeployment",
                 <<DeploymentCall(req[p].body.businessSlug,
                                  HostingId(req[p].body.businessSlug))>>,
                 result[p])
    ELSE Respond(result[p], ErrorResponse(500, "Vercel: Failed to create Vercel project"))

\* lines 170-193: createVercelDeployment after the project call returned
AfterHostingProject(p, reply) ==
    IF hostingProjectCreated(reply)
    THEN Suspend("awaitDeployment",
                 <<DeploymentCall(req[p].body.businessSlug,
                                  HostingId(req[p].body.businessSlug))>>,
                 result[p])
    ELSE Finish(result[p])

\* lines 195-208 and 405-411: after the deployment call returned
AfterDeployment(p, reply) ==
    LET vc == createVercelDeployment(req[p].body.businessSlug, loc[p].hostingId, reply)
    IN  Finish(IF vc.has THEN [result[p] EXCEPT !.vercel = vc] ELSE result[p])

(***************************************************************************)
(* Actions: one per await of the handler                                   *)
(***************************************************************************)
IsCall(e) == e.api # "timer"

\* take continuation k: suspend at k.pc having issued k.ev, or respond
Apply(p, k) ==
    /\ pc' = [pc EXCEPT ![p] = k.pc]
    /\ log' = [log EXCEPT ![p] = @ \o k.ev]
    /\ pending' = [pending EXCEPT ![p] =
                      {k.ev[j] : j \in {n \in DOMAIN k.ev : IsCall(k.ev[n])}}]
    /\ result' = [result EXCEPT ![p] = k.res]
    /\ resp' = [resp EXCEPT ![p] = k.resp]

\* the runtime hands request r to invocation p
Receive(p, r) ==
    /\ p \in slots
    /\ pc[p] \in {"idle", "done"}
    /\ served < MaxRequests
    /\ req' = [req EXCEPT ![p] = r]
    /\ served' = served + 1
    /\ pc' = [pc EXCEPT ![p] = "received"]
    /\ log' = [log EXCEPT ![p] = <<>>]
    /\ pending' = [pending EXCEPT ![p] = {}]
    /\ result' = [result EXCEPT ![p] = ProvisionResult]
    /\ resp' = [resp EXCEPT ![p] = NoResponse]
    /\ loc' = [loc EXCEPT ![p] = NoLocals]
    /\ UNCHANGED <<imaging, editing, env, slots, provider>>

\* a request reaches the endpoint
Arrive(p) == \E r \in Requests : Receive(p, r)

\* a request for the slug reaches the endpoint
ArriveSameSlug(p) == \E r \in SameSlugRequests : Receive(p, r)

\* a request with a business config reaches the endpoint
ArriveWithConfig(p) == \E r \in ConfigRequests : Receive(p, r)

HandleRequest(p) ==
    /\ pc[p] = "received"
    /\ LET k == Serve(p)
       IN  /\ Apply(p, k)
           /\ generated' = IF k.pc = "awaitGenerate"
                           THEN Append(generated, newRepoName(req[p].body.businessSlug))
                           ELSE generated
    /\ UNCHANGED <<imaging, editing, env, slots, served, req, loc, repos, projects, hosting, files>>

GenerateReturns(p) ==
    /\ pc[p] = "awaitGenerate"
    /\ LET name == newRepoName(req[p].body.businessSlug)
       IN  \E reply \in GenerateReplies(name) :
               /\ repos' = IF reply.performed THEN repos \cup {name} ELSE repos
               /\ files' = IF reply.performed
                           THEN [files EXCEPT ![name] = TemplateFile] ELSE files
               /\ Apply(p, AfterGenerate(p, createGitHubRepo(reply, name)))
               /\ loc' = [loc EXCEPT ![p].githubReply =
                                        IF createGitHubRepo(reply, name).success
                                        THEN "ok" ELSE "failed",
                                     ![p].githubMessage = reply.message,
                                     ![p].created =
                                        IF reply.performed THEN {"github"} ELSE {}]
    /\ UNCHANGED <<imaging, editing, env, slots, served, req, projects, hosting, generated>>

RepoWaitElapses(p) ==
    /\ pc[p] = "wait5"
    /\ Apply(p, EnterConfigWrite(p, result[p]))
    /\ UNCHANGED <<imaging, editing, env, slots, served, req, loc, provider>>

GetConfigReturns(p) ==
    /\ pc[p] = "awaitGetConfig"
    /\ \E reply \in GetConfigReplies(newRepoName(req[p].body.businessSlug)) :
           /\ Apply(p, AfterGetConfig(p, reply))
           /\ loc' = [loc EXCEPT ![p].sha = reply.sha, ![p].content = reply.content]
    /\ UNCHANGED <<imaging, editing, env, slots, served, req, provider>>

PutConfigReturns(p) ==
    /\ pc[p] = "awaitPutConfig"
    /\ \E call \in pending[p] :
       \E reply \in PutConfigReplies(call.name, call.sha) :
           /\ Apply(p, AfterPutConfig(p, reply))
           /\ files' = IF reply.performed
                       THEN [files EXCEPT ![call.name] =
                                [rev |-> @.rev + 1, doc |-> call.content]]
                       ELSE files
           /\ loc' = [loc EXCEPT ![p].putReply = IF reply.ok THEN "ok" ELSE "failed"]
    /\ UNCHANGED <<imaging, editing, env, slots, served, req, repos, projects, hosting, generated>>

\* another writer commits its edit to the config file while invocation p is
\* at work on it
OtherWriterCommits(p) ==
    /\ pc[p] \in {"awaitGetConfig", "awaitPutConfig"}
    /\ LET name == newRepoName(req[p].body.businessSlug)
       IN  /\ files[name].rev < MaxRevision
           /\ files' = [files EXCEPT ![name] =
                           [rev |-> @.rev + 1,
                            doc |-> {kv \in @.doc : kv[1] \notin Keys(OtherEdit)}
                                        \cup MapDoc(OtherEdit, "Utf8Encode")]]
    /\ UNCHANGED <<imaging, editing, env, slots, served, pc, req, result, resp, log, pending, loc,
                   repos, projects, hosting, generated>>

CreateProjectReturns(p) ==
    /\ pc[p] = "awaitCreateProject"
    /\ \E reply \in CreateProjectReplies :
           /\ projects' = IF reply.performed THEN projects \cup {NewProjectId}
                          ELSE projects
           /\ Apply(p, AfterCreateProject(p, reply))
           /\ loc' = [loc EXCEPT ![p].dataId =
                                        IF supabaseCreated(reply) THEN NewProjectId ELSE "",
                                     ![p].backendReply =
                                        IF reply.thrown \/ ~reply.ok THEN "failed"
                                        ELSE "created",
                                     ![p].created =
                                        IF reply.performed THEN @ \cup {"supabase"}
                                        ELSE @]
    /\ UNCHANGED <<imaging, editing, env, slots, served, req, repos, hosting, generated, files>>

ProjectWaitElapses(p) ==
    /\ pc[p] = "wait30"
    /\ Apply(p, AfterProjectWait(p))
    /\ UNCHANGED <<imaging, editing, env, slots, served, req, loc, provider>>

ListKeysReturns(p) ==
    /\ pc[p] = "awaitListKeys"
    /\ \E reply \in ListKeysReplies :
           /\ Apply(p, AfterListKeys(p, reply))
           /\ loc' = [loc EXCEPT ![p].i =
                                        IF AfterListKeys(p, reply).pc = "awaitSetSecret"
                                        THEN 1 ELSE 0,
                                     ![p].keysReply =
                                        IF reply.thrown \/ ~reply.ok THEN "failed"
                                        ELSE "ok"]
    /\ UNCHANGED <<imaging, editing, env, slots, served, req, provider>>

SetSecretReturns(p) ==
    /\ pc[p] = "awaitSetSecret"
    /\ \E reply \in SetSecretReplies :
           /\ Apply(p, AfterSetSecret(p, reply))
           /\ loc' = [loc EXCEPT ![p].i =
                         IF AfterSetSecret(p, reply).pc = "awaitSetSecret"
                         THEN loc[p].i + 1 ELSE 0]
    /\ UNCHANGED <<imaging, editing, env, slots, served, req, provider>>

HostingProjectReturns(p) ==
    /\ pc[p] = "awaitHostingProject"
    /\ LET name == req[p].body.businessSlug
       IN  \E reply \in HostingProjectReplies(name) :
               /\ hosting' = IF reply.performed THEN hosting \cup {name} ELSE hosting
               /\ Apply(p, AfterHostingProject(p, reply))
               /\ loc' = [loc EXCEPT ![p].hostingId =
                                            IF hostingProjectCreated(reply)
                                            THEN HostingId(name) ELSE "",
                                         ![p].hostingReply =
                                            IF reply.thrown \/ ~reply.ok THEN "failed"
                                            ELSE "created",
                                         ![p].created =
                                            IF reply.performed THEN @ \cup {"vercel"}
                                            ELSE @]
    /\ UNCHANGED <<imaging, editing, env, slots, served, req, repos, projects, generated, files>>

DeploymentReturns(p) ==
    /\ pc[p] = "awaitDeployment"
    /\ \E reply \in DeploymentReplies :
           /\ Apply(p, AfterDeployment(p, reply))
           /\ loc' = [loc EXCEPT ![p].deployReply =
                                        IF reply.thrown \/ ~reply.ok THEN "failed"
                                        ELSE "ok",
                                     ![p].deployUrl = reply.url,
                                     ![p].deployLost =
                                        reply.thrown \/ (reply.ok /\ ~reply.readable)]
    /\ UNCHANGED <<imaging, editing, env, slots, served, req, provider>>

(***************************************************************************)
(* The code-editing edge function                                          *)
(* supabase/functions/apply-code-changes/index.ts.                         *)
(*                                                                         *)
(* One invocation: the handler reads each change's file (getFileSha), then *)
(* deletes it or writes it (deleteFile, updateFile), one change after the  *)
(* other.  GitHub is the environment: a read or a write is answered 2xx,   *)
(* non-2xx, or the fetch rejects; a write takes effect only when its sha   *)
(* names the file's current blob.  The request body is whatever JSON the   *)
(* client sent: the cast to ApplyChangesRequest validates nothing.         *)
(***************************************************************************)
MaxChanges == 2

Paths == {"a.ts", "b.ts"}

\* the texts "A", "B" and the euro sign (a code unit above 255)
TextA == <<65>>

TextB == <<66>>

TextEuro == <<8364>>

\* the FileChange objects a request can carry: a property that is absent is
\* absent from the record; "rename" is an action the type does not list
FileChanges ==
    UNION {{[path |-> f, action |-> "delete"],
            [path |-> f, action |-> "rename"],
            [path |-> f, action |-> "modify"],
            [path |-> f, action |-> "modify", fullContent |-> TextB],
            [path |-> f, action |-> "modify", fullContent |-> TextEuro],
            [path |-> f, action |-> "modify",
             searchReplace |-> <<[search |-> TextA, replace |-> TextB]>>],
            [path |-> f, action |-> "create", fullContent |-> TextB]} :
        f \in Paths}

ChangeLists == UNION {[1..n -> FileChanges] : n \in 0..MaxChanges}

\* the requests: a preflight, a body req.json() cannot read, a changes list
ApplyRequests ==
    {[method |-> "OPTIONS", readable |-> TRUE, changes |-> <<>>],
     [method |-> "POST", readable |-> FALSE, changes |-> <<>>]}
        \cup {[method |-> "POST", readable |-> TRUE, changes |-> l] : l \in ChangeLists}

NoApplyRequest == [method |-> "", readable |-> FALSE, changes |-> <<>>]

\* getFileSha's null
NoFileInfo == [sha |-> 0, content |-> <<>>]

\* the repository at the start: a.ts holds "A" at blob 1, b.ts does not exist
InitialTree == [f \in Paths |-> IF f = "a.ts" THEN [sha |-> 1, content |-> TextA]
                                ELSE NoFileInfo]

\* the handler's locals at the start
NoEdit ==
    [pc |-> "idle", req |-> NoApplyRequest, index |-> 0, fileInfo |-> NoFileInfo,
     results |-> <<>>, status |-> 0, body |-> [none |-> TRUE]]

\* String.prototype.replace with a string pattern: the first occurrence only
\* (replacement texts here hold no "$" pattern)
replace(t, search, by) ==
    LET at == {k \in 1..(Len(t) + 1) :
                   /\ k + Len(search) - 1 <= Len(t)
                   /\ SubSeq(t, k, k + Len(search) - 1) = search}
    IN  IF at = {} THEN t
        ELSE LET k == CHOOSE k \in at : \A j \in at : k <= j
             IN  SubSeq(t, 1, k - 1) \o by \o SubSeq(t, k + Len(search), Len(t))

RECURSIVE ApplySearchReplace(_, _)
\* lines 192-195
ApplySearchReplace(content, pairs) ==
    IF pairs = <<>> THEN content
    ELSE ApplySearchReplace(replace(content, Head(pairs).search, Head(pairs).replace),
                            Tail(pairs))

\* getFileSha: the sha and the atob of the content on 2xx, null otherwise
getFileSha(reply) ==
    IF reply.kind = "ok" THEN [sha |-> reply.sha, content |-> atob(reply.content)]
    ELSE NoFileInfo

\* what GitHub can answer to the read of a file
FileReplies(file) ==
    {[kind |-> "thrown", sha |-> 0, content |-> <<>>],
     [kind |-> "notok", sha |-> 0, content |-> <<>>]}
        \cup IF file = NoFileInfo THEN {}
             ELSE {[kind |-> "ok", sha |-> file.sha, content |-> file.content]}

\* what GitHub can answer to a write carrying `sha` (0: none): it performs
\* the write only when sha names the current blob, or the file is new and no
\* sha is sent; the reply of a performed write can be lost
WriteReplies(file, sha) ==
    {[kind |-> "notok", performed |-> FALSE, error |-> "409 Conflict"],
     [kind |-> "thrown", performed |-> FALSE, error |-> NetworkError]}
        \cup IF sha = file.sha
             THEN {[kind |-> "ok", performed |-> TRUE, error |-> ""],
                   [kind |-> "thrown", performed |-> TRUE, error |-> NetworkError]}
             ELSE {}

\* updateFile and deleteFile: {success: true} on 2xx, else the error text
writeResult(reply) ==
    IF reply.kind = "ok" THEN [success |-> TRUE]
    ELSE [success |-> FALSE, error |-> reply.error]

\* { path: change.path, ...result }
Entry(path, res) ==
    IF "error" \in DOMAIN res
    THEN [path |-> path, success |-> res.success, error |-> res.error]
    ELSE [path |-> path, success |-> res.success]

NoWrite == [method |-> "", path |-> "", sha |-> 0, content |-> <<>>]

Push(entry) == [kind |-> "push", entry |-> entry, call |-> NoWrite]

Fetch(method, path, sha, content) ==
    [kind |-> "call", entry |-> [none |-> TRUE],
     call |-> [method |-> method, path |-> path, sha |-> sha, content |-> content]]

\* updateFile up to its fetch: btoa throws on a code unit above 255 and the
\* catch of line 92 returns the failure without a request
updateFile(path, content, sha) ==
    IF btoaThrows(content)
    THEN Push(Entry(path, [success |-> FALSE, error |-> "Invalid character"]))
    ELSE Fetch("PUT", path, sha, btoa(content))

\* the body of the loop from the return of getFileSha to the next await or
\* to the end of the iteration (lines 172-213)
ProcessChange(change, fileInfo) ==
    IF change.action = "delete"
    THEN IF fileInfo = NoFileInfo
         THEN Push([path |-> change.path, success |-> FALSE,
                    error |-> "File not found"])
         ELSE Fetch("DELETE", change.path, fileInfo.sha, <<>>)
    ELSE IF change.action \in {"create", "modify"}
    THEN IF "fullContent" \in DOMAIN change /\ change.fullContent # <<>>
         THEN updateFile(change.path, change.fullContent, fileInfo.sha)
         ELSE IF "searchReplace" \in DOMAIN change /\ fileInfo # NoFileInfo
         THEN updateFile(change.path,
                         ApplySearchReplace(fileInfo.content, change.searchReplace),
                         fileInfo.sha)
         ELSE IF "searchReplace" \in DOMAIN change
         THEN Push([path |-> change.path, success |-> FALSE,
                    error |-> "File not found for search/replace"])
         ELSE Push([path |-> change.path, success |-> FALSE,
                    error |-> "No content provided"])
    ELSE [kind |-> "skip", entry |-> [none |-> TRUE], call |-> NoWrite]

\* lines 216-227: the response once the loop is over
ApplyResponse(e) ==
    LET allSuccess == \A k \in 1..Len(e.results) : e.results[k].success
    IN  [e EXCEPT !.pc = "done", !.status = 200,
                  !.body = [success |-> allSuccess, results |-> e.results,
                            message |-> IF allSuccess
                                        THEN "Successfully applied changes"
                                        ELSE "Some changes failed"]]

\* the next iteration of the loop, were a failed change to end the loop
NextChangeUntilFailure(e) ==
    IF e.index < Len(e.req.changes)
           /\ (e.results = <<>> \/ e.results[Len(e.results)].success)
    THEN [e EXCEPT !.pc = "awaitFile", !.index = e.index + 1,
                   !.fileInfo = NoFileInfo]
    ELSE ApplyResponse(e)

\* the next iteration of the loop: the read of the next change's file, or
\* the response after the last one
NextChange(e) ==
    IF e.index < Len(e.req.changes)
    THEN [e EXCEPT !.pc = "awaitFile", !.index = e.index + 1,
                   !.fileInfo = NoFileInfo]
    ELSE ApplyResponse(e)

ApplyError(e, status, message) ==
    [e EXCEPT !.pc = "done", !.status = status, !.body = [error |-> message]]

\* lines 136-164: the handler up to the first read
ServeChanges(e, environment) ==
    IF e.req.method = "OPTIONS"
    THEN [e EXCEPT !.pc = "done", !.status = 200, !.body = [preflight |-> TRUE]]
    ELSE IF ~e.req.readable THEN ApplyError(e, 500, JsonError)
    ELSE IF Len(e.req.changes) = 0 THEN ApplyError(e, 400, "No changes provided")
    ELSE IF "GITHUB_TOKEN" \notin environment
    THEN ApplyError(e, 500, "GITHUB_TOKEN is not configured. Add it to Supabase secrets.")
    ELSE NextChange(e)

\* the return of getFileSha for the current change
AfterFileSha(e, reply) ==
    LET info == getFileSha(reply)
        todo == ProcessChange(e.req.changes[e.index], info)
    IN  IF todo.kind = "call"
        THEN [e EXCEPT !.pc = "awaitWrite", !.fileInfo = info]
        ELSE IF todo.kind = "push"
        THEN NextChange([e EXCEPT !.fileInfo = info,
                                  !.results = Append(@, todo.entry)])
        ELSE NextChange([e EXCEPT !.fileInfo = info])

\* the return of deleteFile or updateFile (lines 183, 212)
AfterWrite(e, reply) ==
    NextChange([e EXCEPT !.results =
        Append(@, Entry(e.req.changes[e.index].path, writeResult(reply)))])

\* the repository after a write GitHub performed; `blob` is the new sha
Commit(repoTree, call, blob) ==
    [repoTree EXCEPT ![call.path] =
        IF call.method = "DELETE" THEN NoFileInfo
        ELSE [sha |-> blob, content |-> call.content]]

(***************************************************************************)
(* Actions of the code-editing function                                    *)
(***************************************************************************)
ChangesArrive ==
    /\ edit.pc = "idle"
    /\ \E r \in ApplyRequests : edit' = [edit EXCEPT !.pc = "received", !.req = r]
    /\ UNCHANGED <<tree, commits, provision, imaging>>

ChangesServed ==
    /\ edit.pc = "received"
    /\ edit' = ServeChanges(edit, env)
    /\ UNCHANGED <<tree, commits, provision, imaging>>

FileShaReturns ==
    /\ edit.pc = "awaitFile"
    /\ LET path == edit.req.changes[edit.index].path
       IN  \E reply \in FileReplies(tree[path]) :
               /\ edit' = AfterFileSha(edit, reply)
               /\ commits' = Append(commits,
                      [index |-> edit.index,
                       call |-> [method |-> "GET", path |-> path, sha |-> 0,
                                 content |-> <<>>],
                       reply |-> reply.kind, performed |-> FALSE])
    /\ UNCHANGED <<tree, provision, imaging>>

WriteReturns ==
    /\ edit.pc = "awaitWrite"
    /\ LET call == ProcessChange(edit.req.changes[edit.index], edit.fileInfo).call
       IN  \E reply \in WriteReplies(tree[call.path], call.sha) :
               /\ edit' = AfterWrite(edit, reply)
               /\ tree' = IF reply.performed
                          THEN Commit(tree, call, Len(commits) + 2)
                          ELSE tree
               /\ commits' = Append(commits,
                      [index |-> edit.index, call |-> call, reply |-> reply.kind,
                       performed |-> reply.performed])
    /\ UNCHANGED <<provision, imaging>>

(***************************************************************************)
(* The hero-image backfill edge function                                   *)
(* supabase/functions/generate-hero-image/index.ts (serve, lines 1723 on). *)
(*                                                                         *)
(* An invocation reads business.json, then services.json and areas.json    *)
(* as its `types` ask, and for each service, area and neighborhood that    *)
(* should get an image either reports it (dryRun) or generates an image,   *)
(* uploads it and waits 3 s; a file with a new image is written back.      *)
(* Gemini, the storage bucket and GitHub are the environment.               *)
(***************************************************************************)
MaxServices == 1

MaxAreas == 1

Runs == {1, 2}

Types == {"services", "areas", "neighborhoods"}

\* the image property of an entry: empty, or the URL of an image it has
Images == {"", "old.png"}

PublicUrl == "hero.png"

\* services.json: service k is named k
ServiceLists ==
    UNION {{[k \in 1..n |-> [name |-> k, image |-> img[k]]] : img \in [1..n -> Images]} :
        n \in 0..MaxServices}

\* a neighborhood is a string or an object with an image property
Neighborhoods(k) ==
    {[kind |-> "string", name |-> k, image |-> ""]}
        \cup {[kind |-> "object", name |-> k, image |-> img] : img \in Images}

\* the neighborhoods arrays: empty, or one neighborhood of either kind
NeighborhoodLists == {<<>>} \cup {<<n>> : n \in Neighborhoods(1)}

\* an area with or without a neighborhoods array
Areas(k) ==
    {[name |-> k, image |-> img] : img \in Images}
        \cup {[name |-> k, image |-> img, neighborhoods |-> l] :
                 img \in Images, l \in NeighborhoodLists}

\* areas.json
AreaLists ==
    UNION {{l \in [1..n -> UNION {Areas(k) : k \in 1..n}] :
                \A k \in 1..n : l[k].name = k} :
        n \in 0..MaxAreas}

\* fetchGitHubFile's null
NoConfigFile == [found |-> FALSE, content |-> <<>>, sha |-> 0]

\* the requests: a preflight, a body req.json() cannot read, the options
\* (forceRegenerate after its default)
BackfillRequests ==
    {[method |-> "OPTIONS", readable |-> TRUE, types |-> {}, forceRegenerate |-> TRUE],
     [method |-> "POST", readable |-> FALSE, types |-> {}, forceRegenerate |-> TRUE]}
        \cup {[method |-> "POST", readable |-> TRUE, types |-> t, forceRegenerate |-> f] :
                 t \in SUBSET Types, f \in BOOLEAN}

\* the files at the start of the other functions' runs
SiteConfig ==
    [services |-> [found |-> TRUE, content |-> <<>>, sha |-> 1],
     areas |-> [found |-> TRUE, content |-> <<>>, sha |-> 1]]

ConfigFiles ==
    {[services |-> [found |-> TRUE, content |-> s, sha |-> 1],
      areas |-> [found |-> TRUE, content |-> a, sha |-> 1]] :
        s \in ServiceLists, a \in AreaLists}

NoResults == [services |-> <<>>, areas |-> <<>>, neighborhoods |-> <<>>]

\* the locals of an invocation before its request
NoRun ==
    [pc |-> "idle", method |-> "", readable |-> FALSE, types |-> {},
     forceRegenerate |-> FALSE, dryRun |-> FALSE, phase |-> "",
     file |-> NoConfigFile, list |-> <<>>, i |-> 0, j |-> 0, updated |-> FALSE,
     results |-> NoResults, status |-> 0,
     read |-> [services |-> NoConfigFile, areas |-> NoConfigFile]]

BackfillError(r) == [r EXCEPT !.pc = "done", !.status = 500]

\* lines 2002-2017
BackfillResponse(r) == [r EXCEPT !.pc = "done", !.status = 200]

PushResult(r, kind, entry) ==
    [r EXCEPT !.results[kind] = Append(@, entry)]

\* lines 1797-1803, 1862-1868, 1914-1924: what is done with an entry
DecideAlways(shouldGenerate, dryRun) ==
    IF shouldGenerate THEN "generate" ELSE "skipped"

Decide(shouldGenerate, dryRun) ==
    IF shouldGenerate
    THEN IF dryRun THEN "would_generate" ELSE "generate"
    ELSE "skipped"

\* lines 1836, 1986: the file is written back after the loop
WritesBack(r) == r.updated /\ ~r.dryRun

RECURSIVE NeighborhoodsLoop(_)
RECURSIVE AreasLoop(_)
\* lines 1859-1899: the areas from area r.i on, up to the next await
AreasLoop(r) ==
    IF r.i > Len(r.list)
    THEN IF WritesBack(r) THEN [r EXCEPT !.pc = "awaitPut"] ELSE BackfillResponse(r)
    ELSE LET area == r.list[r.i]
             what == Decide(r.forceRegenerate \/ area.image = "", r.dryRun)
         IN  IF what = "would_generate"
             THEN AreasLoop([PushResult(r, "areas",
                                 [name |-> area.name, status |-> "would_generate"])
                             EXCEPT !.i = r.i + 1])
             ELSE IF what = "generate"
             THEN [r EXCEPT !.pc = "awaitImage", !.j = 0]
             ELSE NeighborhoodsLoop(
                      [PushResult(r, "areas", [name |-> area.name, status |-> "skipped"])
                       EXCEPT !.j = 1])

\* lines 1901-1982: the neighborhoods of area r.i from r.j on
NeighborhoodsLoop(r) ==
    LET area == r.list[r.i]
    IN  IF \/ "neighborhoods" \notin r.types
           \/ "neighborhoods" \notin DOMAIN area
           \/ r.j > Len(area.neighborhoods)
        THEN AreasLoop([r EXCEPT !.i = r.i + 1])
        ELSE LET neighborhood == area.neighborhoods[r.j]
                 needsImage == neighborhood.kind = "object" /\ neighborhood.image = ""
                 what == Decide(\/ r.forceRegenerate
                                \/ needsImage
                                \/ (/\ neighborhood.kind = "string"
                                    /\ "neighborhoods" \in r.types),
                                r.dryRun)
             IN  IF what = "would_generate"
                 THEN NeighborhoodsLoop(
                          [PushResult(r, "neighborhoods",
                               [name |-> neighborhood.name, cityName |-> area.name,
                                status |-> "would_generate"])
                           EXCEPT !.j = r.j + 1])
                 ELSE IF what = "generate"
                 THEN [r EXCEPT !.pc = "awaitImage"]
                 ELSE NeighborhoodsLoop([r EXCEPT !.j = r.j + 1])

\* lines 1851-1853
StartAreas(r) ==
    IF "areas" \in r.types
    THEN [r EXCEPT !.pc = "awaitFile", !.phase = "areas"]
    ELSE BackfillResponse(r)

RECURSIVE ServicesLoop(_)
\* lines 1794-1847: the services from service r.i on, up to the next await
ServicesLoop(r) ==
    IF r.i > Len(r.list)
    THEN IF WritesBack(r) THEN [r EXCEPT !.pc = "awaitPut"] ELSE StartAreas(r)
    ELSE LET service == r.list[r.i]
             what == Decide(r.forceRegenerate \/ service.image = "", r.dryRun)
         IN  IF what = "generate"
             THEN [r EXCEPT !.pc = "awaitImage"]
             ELSE ServicesLoop([PushResult(r, "services",
                                    [name |-> service.name, status |-> what])
                                EXCEPT !.i = r.i + 1])

\* lines 1724-1765: the handler up to the read of business.json
ServeBackfill(r, environment) ==
    IF r.method = "OPTIONS" THEN [r EXCEPT !.pc = "done", !.status = 200]
    ELSE IF ~r.readable THEN BackfillError(r)
    ELSE IF "GEMINI_API_KEY" \notin environment THEN BackfillError(r)
    ELSE IF "GITHUB_TOKEN" \notin environment THEN BackfillError(r)
    ELSE [r EXCEPT !.pc = "awaitFile", !.phase = "business"]

\* the return of fetchGitHubFile (lines 1765, 1788, 1853)
AfterConfigFile(r, file) ==
    IF r.phase = "business"
    THEN IF "services" \in r.types
         THEN [r EXCEPT !.pc = "awaitFile", !.phase = "services"]
         ELSE StartAreas(r)
    ELSE IF r.phase = "services"
    THEN IF file.found
         THEN ServicesLoop([r EXCEPT !.file = file, !.list = file.content, !.i = 1,
                                     !.updated = FALSE, !.read.services = file])
         ELSE StartAreas([r EXCEPT !.read.services = file])
    ELSE IF file.found /\ Len(file.content) > 0
         THEN AreasLoop([r EXCEPT !.file = file, !.list = file.content, !.i = 1,
                                  !.updated = FALSE, !.read.areas = file])
         ELSE BackfillResponse(
                  PushResult([r EXCEPT !.read.areas = file], "areas",
                             [name |-> "areas.json", status |-> "error"]))

\* the entry the invocation is generating an image for
Current(r) ==
    IF r.phase = "services"
    THEN [kind |-> "services", name |-> r.list[r.i].name, cityName |-> 0]
    ELSE IF r.j = 0
    THEN [kind |-> "areas", name |-> r.list[r.i].name, cityName |-> 0]
    ELSE [kind |-> "neighborhoods", name |-> r.list[r.i].neighborhoods[r.j].name,
          cityName |-> r.list[r.i].name]

ResultEntry(r, status) ==
    IF r.phase = "areas" /\ r.j > 0
    THEN [name |-> Current(r).name, cityName |-> Current(r).cityName, status |-> status]
    ELSE [name |-> Current(r).name, status |-> status]

\* the return of generateImage (lines 1811-1826, 1876-1892, 1932-1976)
AfterImage(r, imageData) ==
    IF imageData THEN [r EXCEPT !.pc = "awaitUpload"]
    ELSE [PushResult(r, Current(r).kind, ResultEntry(r, "error"))
          EXCEPT !.pc = "awaitSleep"]

\* the entry with its new image (lines 1818, 1883-1884, 1945-1953)
WithImage(r, url) ==
    IF r.phase = "areas" /\ r.j > 0
    THEN [r EXCEPT !.list[r.i].neighborhoods[r.j] =
             [kind |-> "object", name |-> @.name, image |-> url]]
    ELSE [r EXCEPT !.list[r.i].image = url]

\* the return of uploadToStorage
AfterUpload(r, publicUrl) ==
    IF publicUrl # ""
    THEN [PushResult(WithImage(r, publicUrl), Current(r).kind, ResultEntry(r, "success"))
          EXCEPT !.pc = "awaitSleep", !.updated = TRUE]
    ELSE [PushResult(r, Current(r).kind, ResultEntry(r, "error"))
          EXCEPT !.pc = "awaitSleep"]

\* the end of the 3 s wait (lines 1829, 1895, 1979)
AfterRateLimit(r) ==
    IF r.phase = "services" THEN ServicesLoop([r EXCEPT !.i = r.i + 1])
    ELSE NeighborhoodsLoop([r EXCEPT !.j = r.j + 1])

\* the return of updateGitHubFile (lines 1837-1845, 1987-1995)
AfterConfigPut(r) ==
    IF r.phase = "services" THEN StartAreas(r) ELSE BackfillResponse(r)

\* a call as the environment receives it
MediaCall(k, api, r) ==
    [run |-> k, api |-> api, phase |-> r.phase,
     entry |-> IF api \in {"generateImage", "upload"} THEN Current(r)
               ELSE [kind |-> r.phase, name |-> 0, cityName |-> 0]]

(***************************************************************************)
(* Actions of the backfill function                                        *)
(***************************************************************************)
\* the requests with either value of dryRun
BackfillArrive(k) ==
    /\ k = 1
    /\ backfill[k].pc = "idle"
    /\ \E q \in BackfillRequests, d \in BOOLEAN :
           backfill' = [backfill EXCEPT ![k] =
               [NoRun EXCEPT !.pc = "received", !.method = q.method,
                             !.readable = q.readable, !.types = q.types,
                             !.forceRegenerate = q.forceRegenerate, !.dryRun = d]]
    /\ UNCHANGED <<jsonFiles, media, editing, provision>>

\* the request of an answered dry run is sent again with dryRun = false
RepeatForReal(k) ==
    /\ k = 2
    /\ backfill[k].pc = "idle"
    /\ backfill[1].pc = "done" /\ backfill[1].dryRun
    /\ backfill' = [backfill EXCEPT ![k] =
           [NoRun EXCEPT !.pc = "received", !.method = backfill[1].method,
                         !.readable = backfill[1].readable,
                         !.types = backfill[1].types,
                         !.forceRegenerate = backfill[1].forceRegenerate,
                         !.dryRun = FALSE]]
    /\ UNCHANGED <<jsonFiles, media, editing, provision>>

BackfillServed(k) ==
    /\ backfill[k].pc = "received"
    /\ backfill' = [backfill EXCEPT ![k] = ServeBackfill(@, env)]
    /\ UNCHANGED <<jsonFiles, media, editing, provision>>

\* GitHub answers with the file, or the read fails
ConfigFileReturns(k) ==
    /\ backfill[k].pc = "awaitFile"
    /\ \E file \in {NoConfigFile} \cup
                   (IF backfill[k].phase = "business" THEN {}
                    ELSE {jsonFiles[backfill[k].phase]}) :
           backfill' = [backfill EXCEPT ![k] = AfterConfigFile(@, file)]
    /\ media' = Append(media, MediaCall(k, "GET", backfill[k]))
    /\ UNCHANGED <<jsonFiles, editing, provision>>

ImageReturns(k) ==
    /\ backfill[k].pc = "awaitImage"
    /\ \E imageData \in BOOLEAN :
           backfill' = [backfill EXCEPT ![k] = AfterImage(@, imageData)]
    /\ media' = Append(media, MediaCall(k, "generateImage", backfill[k]))
    /\ UNCHANGED <<jsonFiles, editing, provision>>

UploadReturns(k) ==
    /\ backfill[k].pc = "awaitUpload"
    /\ \E publicUrl \in {"", PublicUrl} :
           backfill' = [backfill EXCEPT ![k] = AfterUpload(@, publicUrl)]
    /\ media' = Append(media, MediaCall(k, "upload", backfill[k]))
    /\ UNCHANGED <<jsonFiles, editing, provision>>

RateLimitElapses(k) ==
    /\ backfill[k].pc = "awaitSleep"
    /\ backfill' = [backfill EXCEPT ![k] = AfterRateLimit(@)]
    /\ UNCHANGED <<jsonFiles, media, editing, provision>>

\* GitHub performs the write when the sha names the current blob, or rejects
ConfigPutReturns(k) ==
    /\ backfill[k].pc = "awaitPut"
    /\ LET r == backfill[k]
       IN  \E performed \in {FALSE, r.file.sha = jsonFiles[r.phase].sha} :
               jsonFiles' = IF performed
                         THEN [jsonFiles EXCEPT ![r.phase] =
                                  [found |-> TRUE, content |-> r.list, sha |-> @.sha + 1]]
                         ELSE jsonFiles
    /\ backfill' = [backfill EXCEPT ![k] = AfterConfigPut(@)]
    /\ media' = Append(media, MediaCall(k, "PUT", backfill[k]))
    /\ UNCHANGED <<editing, provision>>

(***************************************************************************)
(* Specification: one invocation at a time                                 *)
(***************************************************************************)
\* nothing received yet, the runtime serving the invocations of `serving`
Start(serving) ==
    /\ env \in SUBSET EnvNames
    /\ slots = serving
    /\ served = 0
    /\ pc = [p \in Procs |-> "idle"]
    /\ req = [p \in Procs |-> NoRequest]
    /\ result = [p \in Procs |-> ProvisionResult]
    /\ resp = [p \in Procs |-> NoResponse]
    /\ log = [p \in Procs |-> <<>>]
    /\ pending = [p \in Procs |-> {}]
    /\ loc = [p \in Procs |-> NoLocals]
    /\ repos = {}
    /\ projects = {}
    /\ hosting = {}
    /\ generated = <<>>
    /\ files = [name \in {newRepoName(slug) : slug \in Slugs} |-> NoFile]
    /\ edit = NoEdit
    /\ tree = InitialTree
    /\ commits = <<>>
    /\ backfill = [k \in Runs |-> NoRun]
    /\ media = <<>>

Init == Start({"r1"}) /\ jsonFiles = SiteConfig

Next ==
    \E p \in Procs :
        \/ Arrive(p)
        \/ HandleRequest(p)
        \/ GenerateReturns(p)
        \/ RepoWaitElapses(p)
        \/ GetConfigReturns(p)
        \/ PutConfigReturns(p)
        \/ CreateProjectReturns(p)
        \/ ProjectWaitElapses(p)
        \/ ListKeysReturns(p)
        \/ SetSecretReturns(p)
        \/ HostingProjectReturns(p)
        \/ DeploymentReturns(p)

Spec == Init /\ [][Next]_vars

(***************************************************************************)
(* The same handler under the assumption that every external call returns  *)
(* (2xx, non-2xx or thrown error), that the timers fire and that the       *)
(* runtime runs a handler that can go on: whichever step invocation p can  *)
(* take is taken eventually.  No request has to arrive.                    *)
(***************************************************************************)
Progress(p) ==
    \/ HandleRequest(p)
    \/ GenerateReturns(p)
    \/ RepoWaitElapses(p)
    \/ GetConfigReturns(p)
    \/ PutConfigReturns(p)
    \/ CreateProjectReturns(p)
    \/ ProjectWaitElapses(p)
    \/ ListKeysReturns(p)
    \/ SetSecretReturns(p)
    \/ HostingProjectReturns(p)
    \/ DeploymentReturns(p)

FairSpec == Spec /\ \A p \in Procs : WF_vars(Progress(p))

(***************************************************************************)
(* Two invocations served concurrently, every token configured, the        *)
(* requests all for the same slug.                                         *)
(***************************************************************************)
InitRace == Start(Procs) /\ env = EnvNames /\ jsonFiles = SiteConfig

NextRace == \E p \in Procs : ArriveSameSlug(p) \/ Progress(p)

SpecRace == InitRace /\ [][NextRace]_vars

(***************************************************************************)
(* The config write looked at closely: every token is configured, the      *)
(* requests carry a business config of each kind, and another writer       *)
(* commits to the file.                                                    *)
(***************************************************************************)
InitFile == Init /\ env = EnvNames

NextFile ==
    \E p \in Procs :
        \/ ArriveWithConfig(p)
        \/ HandleRequest(p)
        \/ GenerateReturns(p)
        \/ RepoWaitElapses(p)
        \/ GetConfigReturns(p)
        \/ PutConfigReturns(p)
        \/ OtherWriterCommits(p)
        \/ CreateProjectReturns(p)
        \/ ProjectWaitElapses(p)
        \/ ListKeysReturns(p)
        \/ SetSecretReturns(p)
        \/ HostingProjectReturns(p)
        \/ DeploymentReturns(p)

SpecFile == InitFile /\ [][NextFile]_vars

(***************************************************************************)
(* The code-editing function alone: one invocation, GITHUB_TOKEN           *)
(* configured or not.                                                      *)
(***************************************************************************)
InitChanges == Start({}) /\ env \in {{}, {"GITHUB_TOKEN"}} /\ jsonFiles = SiteConfig

NextChanges ==
    \/ ChangesArrive
    \/ ChangesServed
    \/ FileShaReturns
    \/ WriteReturns

SpecChanges == InitChanges /\ [][NextChanges]_vars

(***************************************************************************)
(* The hero-image backfill alone: any config files, one invocation.        *)
(***************************************************************************)
InitBackfill ==
    /\ Start({})
    /\ env \in {{"GEMINI_API_KEY", "GITHUB_TOKEN"}, {"GEMINI_API_KEY"}, {"GITHUB_TOKEN"}}
    /\ jsonFiles \in ConfigFiles

NextBackfill ==
    \E k \in Runs :
        \/ BackfillArrive(k)
        \/ BackfillServed(k)
        \/ ConfigFileReturns(k)
        \/ ImageReturns(k)
        \/ UploadReturns(k)
        \/ RateLimitElapses(k)
        \/ ConfigPutReturns(k)

SpecBackfill == InitBackfill /\ [][NextBackfill]_vars

(***************************************************************************)
(* A dry run and then the same request for real.                           *)
(***************************************************************************)
NextPreview == NextBackfill \/ \E k \in Runs : RepeatForReal(k)

SpecPreview == InitBackfill /\ [][NextPreview]_vars

(***************************************************************************)
(* Vocabulary of the properties                                            *)
(***************************************************************************)
Responded(p) == pc[p] = "done"

Calls(p) == SelectSeq(log[p], IsCall)

Issued(p, api, op) ==
    \E j \in DOMAIN log[p] : log[p][j].api = api /\ log[p][j].op = op

\* text contains part
Contains(text, part) ==
    \E i \in 1..Len(text) :
        /\ i + Len(part) - 1 <= Len(text)
        /\ SubSeq(text, i, i + Len(part) - 1) = part

RequiredFields == {"businessName", "businessSlug", "ownerEmail"}

\* a required field is absent from the body, or empty
LacksRequiredField(body) == \E f \in RequiredFields : body[f] \in {undefined, ""}

MandatoryTokens == {"GITHUB_TOKEN", "SUPABASE_ACCESS_TOKEN", "VERCEL_TOKEN"}

\* a POST request with the three fields, served with the three tokens
Admitted(p) ==
    /\ req[p].method = "POST"
    /\ req[p].body.kind = "object"
    /\ ~LacksRequiredField(req[p].body)
    /\ MandatoryTokens \subseteq env

RepoName(p) == newRepoName(req[p].body.businessSlug)

\* the names of the secrets invocation p has issued a write for, in order
SecretWrites(p) ==
    LET w == SelectSeq(log[p], LAMBDA e : e.api = "supabase" /\ e.op = "setSecret")
    IN  [j \in DOMAIN w |-> w[j].name]

\* the place of a call in the order of the stages
Rank(e) ==
    CASE e.api = "github" /\ e.op = "generate" -> 1
      [] e.api = "github" /\ e.op = "getConfig" -> 2
      [] e.api = "github" /\ e.op = "putConfig" -> 3
      [] e.api = "supabase" /\ e.op = "createProject" -> 4
      [] e.api = "supabase" /\ e.op = "listKeys" -> 5
      [] e.api = "supabase" /\ e.op = "setSecret" -> 6
      [] e.api = "vercel" /\ e.op = "createProject" -> 7
      [] e.api = "vercel" /\ e.op = "createDeployment" -> 8
      [] OTHER -> 0

(***************************************************************************)
(* C1: a POST request whose JSON body lacks businessName, businessSlug or  *)
(* ownerEmail (absent or empty) is answered 400 and issues no external     *)
(* call, whatever tokens are configured.  Refuted by the body null: the    *)
(* validation throws on it and the catch answers 500.                      *)
(***************************************************************************)
C1_MissingFieldIs400 ==
    \A p \in Procs :
        (/\ Responded(p)
         /\ req[p].method = "POST"
         /\ req[p].body.kind # "malformed"
         /\ LacksRequiredField(req[p].body))
            => (resp[p].status = 400 /\ log[p] = <<>>)

(***************************************************************************)
(* C2, as stated: every POST request served with a mandatory token absent  *)
(* is answered 500 and issues no external call.  Refuted by a request      *)
(* that also lacks a required field: the validation runs first, 400.       *)
(***************************************************************************)
C2_MissingTokenIs500_Original ==
    \A p \in Procs :
        (/\ Responded(p)
         /\ req[p].method = "POST"
         /\ ~(MandatoryTokens \subseteq env))
            => (resp[p].status = 500 /\ log[p] = <<>>)

(***************************************************************************)
(* C2, amended: every POST request that carries the three required fields  *)
(* and is served with a mandatory token absent is answered 500, with the   *)
(* error body, and issues no external call.                                *)
(***************************************************************************)
C2_MissingTokenIs500 ==
    \A p \in Procs :
        (/\ Responded(p)
         /\ req[p].method = "POST"
         /\ req[p].body.kind = "object"
         /\ ~LacksRequiredField(req[p].body)
         /\ ~(MandatoryTokens \subseteq env))
            => (resp[p].status = 500 /\ resp[p].kind = "error" /\ log[p] = <<>>)

C2_Witness ==
    \E p \in Procs :
        /\ Responded(p)
        /\ req[p].body.kind = "object"
        /\ ~LacksRequiredField(req[p].body)
        /\ "GITHUB_TOKEN" \in env
        /\ "VERCEL_TOKEN" \notin env
        /\ resp[p].status = 500

(***************************************************************************)
(* C3: when the generate call fails, the response is 500, its error text   *)
(* contains the message GitHub gave (if it gave one), and the generate     *)
(* call is all the invocation ever issued: no sleep, no later call.        *)
(***************************************************************************)
C3_RepoFailureAborts ==
    \A p \in Procs :
        loc[p].githubReply = "failed"
            => /\ Responded(p)
               /\ resp[p].status = 500
               /\ resp[p].kind = "error"
               /\ loc[p].githubMessage # ""
                     => Contains(resp[p].error, loc[p].githubMessage)
               /\ log[p] = <<GenerateCall(RepoName(p))>>

C3_Witness ==
    \E p \in Procs :
        /\ loc[p].githubReply = "failed"
        /\ loc[p].githubMessage \in ProviderMessages
        /\ Responded(p)
        /\ resp[p].status = 500

(***************************************************************************)
(* C4: once the generate call succeeded, the response is 200 with          *)
(* success = true, whatever became of the later stages.                    *)
(***************************************************************************)
C4_SuccessOnceRepoCreated ==
    \A p \in Procs :
        (Responded(p) /\ loc[p].githubReply = "ok")
            => /\ resp[p].status = 200
               /\ resp[p].kind = "result"
               /\ resp[p].result.success = TRUE

C4_Witness ==
    \E p \in Procs :
        /\ Responded(p)
        /\ loc[p].githubReply = "ok"
        /\ Issued(p, "github", "getConfig") /\ ~Issued(p, "github", "putConfig")
        /\ loc[p].backendReply = "failed"
        /\ Issued(p, "vercel", "createProject") /\ ~resp[p].result.vercel.has
        /\ resp[p].result.success = TRUE

(***************************************************************************)
(* C5: when the repository was created and the create-project call of the  *)
(* backend fails, no secret is ever written and the response is 200 with   *)
(* success = true and no supabase field.                                   *)
(***************************************************************************)
C5_BackendFailureSwallowed ==
    \A p \in Procs :
        (loc[p].githubReply = "ok" /\ loc[p].backendReply = "failed")
            => /\ ~Issued(p, "supabase", "setSecret")
               /\ Responded(p)
                     => /\ resp[p].status = 200
                        /\ resp[p].result.success = TRUE
                        /\ "success" \in BodyKeys(resp[p])
                        /\ "supabase" \notin BodyKeys(resp[p])

C5_Witness ==
    \E p \in Procs :
        /\ Responded(p)
        /\ loc[p].backendReply = "failed"
        /\ resp[p].status = 200
        /\ "supabase" \notin BodyKeys(resp[p])

(***************************************************************************)
(* C6: once secret propagation is over, one write has been issued for      *)
(* every entry of the secret map, in map order, whatever the writes        *)
(* answered.  Refuted by a write whose fetch rejects: the catch encloses   *)
(* the loop, so the remaining secrets are never written.                   *)
(***************************************************************************)
C6_EverySecretWritten ==
    \A p \in Procs :
        (result[p].supabase.has /\ pc[p] # "awaitSetSecret")
            => SecretWrites(p) = secrets

(***************************************************************************)
(* C7: a request without businessConfig never issues the GET or the PUT    *)
(* of src/config/business.json, and provisioning goes on: the first thing  *)
(* after the repository wait is the first call of the next configured      *)
(* stage, and the backend and hosting stages run exactly when their        *)
(* configuration is present.                                               *)
(***************************************************************************)
C7_NoConfigSkipsConfigWrite ==
    \A p \in Procs :
        ~req[p].body.businessConfig.given
            => /\ ~Issued(p, "github", "getConfig")
               /\ ~Issued(p, "github", "putConfig")
               /\ Len(log[p]) >= 3
                     => log[p][3] =
                            IF "SUPABASE_ORG_ID" \in env
                            THEN CreateProjectCall(req[p].body.businessSlug)
                            ELSE HostingProjectCall(req[p].body.businessSlug,
                                     HtmlUrl(RepoName(p)),
                                     [VITE_SUPABASE_URL |-> "",
                                      VITE_SUPABASE_ANON_KEY |-> ""])
               /\ (Responded(p) /\ loc[p].githubReply = "ok")
                     => /\ resp[p].status = 200
                        /\ Issued(p, "supabase", "createProject")
                               <=> "SUPABASE_ORG_ID" \in env
                        /\ Issued(p, "vercel", "createProject")
                               <=> "VERCEL_TEAM_ID" \in env

C7_Witness ==
    \E p \in Procs :
        /\ Responded(p)
        /\ Admitted(p)
        /\ ~req[p].body.businessConfig.given
        /\ Issued(p, "supabase", "createProject")
        /\ Issued(p, "vercel", "createDeployment")

(***************************************************************************)
(* C8: the calls of an invocation are issued one at a time, in the order   *)
(* generate, config GET, config PUT, backend create-project, api-keys,     *)
(* secret writes, hosting create-project, create-deployment: at most one   *)
(* call is in flight, it is the last one issued, every call issued after   *)
(* another belongs to a later step (or both are secret writes), and the    *)
(* response is sent with no call in flight.                                *)
(***************************************************************************)
C8_StrictlySequential ==
    \A p \in Procs :
        LET c == Calls(p)
        IN  /\ Cardinality(pending[p]) <= 1
            /\ pending[p] # {} => (c # <<>> /\ pending[p] = {c[Len(c)]})
            /\ Responded(p) => pending[p] = {}
            /\ c # <<>> => Rank(c[1]) = 1
            /\ \A j \in 1..Len(c) : Rank(c[j]) \in 1..8
            /\ \A j \in 1..(Len(c) - 1) :
                   \/ Rank(c[j]) < Rank(c[j + 1])
                   \/ Rank(c[j]) = 6 /\ Rank(c[j + 1]) = 6
            /\ \A j \in 2..Len(c) :
                   /\ Rank(c[j]) = 3 => Rank(c[j - 1]) = 2
                   /\ Rank(c[j]) = 5 => Rank(c[j - 1]) = 4
                   /\ Rank(c[j]) = 6 => Rank(c[j - 1]) \in {5, 6}
                   /\ Rank(c[j]) = 8 => Rank(c[j - 1]) = 7

C8_Witness ==
    \E p \in Procs :
        /\ Responded(p)
        /\ {Rank(Calls(p)[j]) : j \in DOMAIN Calls(p)} = 1..8
        /\ Len(Calls(p)) = 7 + Len(secrets)

(***************************************************************************)
(* C9: no invocation ever issues a call other than the eight provisioning  *)
(* calls (no delete, no undo), and every repository, backend project and   *)
(* hosting project an invocation created still exists at its provider,     *)
(* in particular when the response is sent after a later stage failed.     *)
(***************************************************************************)
C9_NeverCompensates ==
    \A p \in Procs :
        /\ \A j \in DOMAIN log[p] : IsCall(log[p][j]) => Rank(log[p][j]) \in 1..8
        /\ result[p].github.has => result[p].github.repoName \in repos
        /\ loc[p].dataId # "" => loc[p].dataId \in projects
        /\ result[p].supabase.has => result[p].supabase.projectId \in projects
        /\ loc[p].hostingId # "" => req[p].body.businessSlug \in hosting

C9_Witness ==
    \E p \in Procs :
        /\ Responded(p)
        /\ result[p].github.has /\ result[p].github.repoName \in repos
        /\ result[p].supabase.has /\ result[p].supabase.projectId \in projects
        /\ Issued(p, "vercel", "createProject")
        /\ ~Issued(p, "vercel", "createDeployment")
        /\ ~result[p].vercel.has

(***************************************************************************)
(* C10: every request with the three fields, served with the three tokens, *)
(* issues its own generate call for <slug>-app as its first external call, *)
(* whether or not that name was generated before or exists already: two    *)
(* requests with one slug produce two generate calls for one name.         *)
(***************************************************************************)
C10_NotIdempotent ==
    [][\A p \in Procs :
           (pc[p] = "received" /\ pc'[p] # "received" /\ Admitted(p))
               => /\ log'[p] = <<GenerateCall(RepoName(p))>>
                  /\ pending'[p] = {GenerateCall(RepoName(p))}
                  /\ generated' = Append(generated, RepoName(p))]_vars

C10_Witness ==
    /\ Len(generated) >= 2
    /\ generated[1] = generated[2]
    /\ generated[1] \in repos

\* the deployment URL guessed from the project name
GuessedUrl(p) == "https://" \o req[p].body.businessSlug \o ".vercel.app"

\* the hosting project call invocation p issued
HostingCallOf(p) ==
    LET c == SelectSeq(log[p], LAMBDA e : e.api = "vercel" /\ e.op = "createProject")
    IN  c[1]

(***************************************************************************)
(* C11: once the hosting project is created, a deployment trigger that     *)
(* fails, by a non-2xx reply or by a thrown error, is tolerated: the       *)
(* response carries the vercel record with the project id and the guessed  *)
(* URL https://<projectName>.vercel.app.  Refuted by a trigger whose fetch *)
(* rejects: the catch of createVercelDeployment reports the whole stage    *)
(* failed and the response carries no vercel record.                       *)
(***************************************************************************)
C11_DeployFailureTolerated ==
    \A p \in Procs :
        (/\ Responded(p)
         /\ loc[p].hostingId # ""
         /\ loc[p].deployReply = "failed")
            => /\ resp[p].status = 200
               /\ resp[p].result.vercel.has
               /\ resp[p].result.vercel.projectId = loc[p].hostingId
               /\ resp[p].result.vercel.deploymentUrl = GuessedUrl(p)

(***************************************************************************)
(* C12: a hosting project that cannot be created ends the deployment stage *)
(* only: no deployment is triggered, the response is the 200 success       *)
(* without the vercel field, and its github and supabase records are the   *)
(* ones the earlier stages produced (those the project call was built      *)
(* from).                                                                  *)
(***************************************************************************)
C12_HostingFailureEndsStageOnly ==
    \A p \in Procs :
        loc[p].hostingReply = "failed"
            => /\ ~Issued(p, "vercel", "createDeployment")
               /\ Responded(p)
               /\ resp[p].status = 200
               /\ resp[p].kind = "result"
               /\ resp[p].result.success
               /\ "vercel" \notin BodyKeys(resp[p])
               /\ ~resp[p].result.vercel.has
               /\ resp[p].result.github =
                      [has |-> TRUE, repoUrl |-> HtmlUrl(RepoName(p)),
                       repoName |-> RepoName(p)]
               /\ resp[p].result.github.repoUrl = HostingCallOf(p).repo
               /\ resp[p].result.supabase.projectUrl =
                      HostingCallOf(p).environmentVariables.VITE_SUPABASE_URL
               /\ resp[p].result.supabase.anonKey =
                      HostingCallOf(p).environmentVariables.VITE_SUPABASE_ANON_KEY
               /\ resp[p].result.supabase.has =
                      (HostingCallOf(p).environmentVariables.VITE_SUPABASE_URL # "")
               /\ resp[p].result.supabase.has =>
                      resp[p].result.supabase.projectId = loc[p].dataId

\* the hosting project failed after the backend stage produced its record
C12_Witness ==
    \E p \in Procs :
        /\ loc[p].hostingReply = "failed"
        /\ Responded(p)
        /\ resp[p].result.supabase.has
        /\ resp[p].result.supabase.anonKey # ""

(***************************************************************************)
(* C13: once the backend project is created, the stage succeeds whatever   *)
(* the api-keys call does: the record carries the id the creation          *)
(* returned, the URL https://<id>.supabase.co and the anon key, which is   *)
(* the empty string when the key list could not be fetched.  Refuted by an *)
(* api-keys fetch that rejects: the catch of createSupabaseProject reports *)
(* the stage failed and no record is kept.                                 *)
(***************************************************************************)
C13_KeyListFailureTolerated ==
    \A p \in Procs :
        (/\ loc[p].dataId # ""
         /\ loc[p].keysReply # "none")
            => /\ result[p].supabase.has
               /\ result[p].supabase.projectId = loc[p].dataId
               /\ result[p].supabase.projectUrl =
                      "https://" \o loc[p].dataId \o ".supabase.co"
               /\ loc[p].keysReply = "failed" => result[p].supabase.anonKey = ""

\* invocation p is inside the config write
InConfigWrite(at) == at \in {"awaitGetConfig", "awaitPutConfig"}

\* the github record of an invocation whose repository was generated
GithubRecord(p) ==
    [has |-> TRUE, repoUrl |-> HtmlUrl(RepoName(p)), repoName |-> RepoName(p)]

(***************************************************************************)
(* C14: the outcome of the config write influences nothing that follows.   *)
(* Two runs that differ only in that outcome leave the config write in the *)
(* same state, so what follows is the same; stated on one run: the step    *)
(* that leaves the config write keeps `result`, and the call it issues or  *)
(* the response it sends is fixed by the request and the environment       *)
(* alone, whichever reply the GET or the PUT got.                          *)
(***************************************************************************)
C14_ConfigOutcomeIgnored ==
    [][\A p \in Procs :
          (InConfigWrite(pc[p]) /\ ~InConfigWrite(pc'[p]))
              => /\ result'[p] = [result[p] EXCEPT !.success = pc'[p] = "done"]
                 /\ result'[p].github = GithubRecord(p)
                 /\ ~result'[p].supabase.has /\ ~result'[p].vercel.has
                 /\ IF "SUPABASE_ORG_ID" \in env
                    THEN /\ pc'[p] = "awaitCreateProject"
                         /\ log'[p] = log[p] \o
                                <<CreateProjectCall(req[p].body.businessSlug)>>
                         /\ resp'[p] = NoResponse
                    ELSE IF "VERCEL_TEAM_ID" \in env
                    THEN /\ pc'[p] = "awaitHostingProject"
                         /\ log'[p] = log[p] \o
                                <<HostingProjectCall(req[p].body.businessSlug,
                                      HtmlUrl(RepoName(p)),
                                      [VITE_SUPABASE_URL |-> "",
                                       VITE_SUPABASE_ANON_KEY |-> ""])>>
                         /\ resp'[p] = NoResponse
                    ELSE /\ pc'[p] = "done"
                         /\ log'[p] = log[p]
                         /\ resp'[p].status = 200
                         /\ resp'[p].kind = "result"
                         /\ BodyKeys(resp'[p]) = {"success", "github"}
                         /\ resp'[p].result = result'[p]]_vars

\* the GET of the config write failed, and the backend and deployment stages
\* ran all the same
C14_Witness ==
    \E p \in Procs :
        /\ Responded(p)
        /\ Issued(p, "github", "getConfig")
        /\ ~Issued(p, "github", "putConfig")
        /\ Issued(p, "supabase", "setSecret")
        /\ resp[p].result.vercel.has

\* the JSON document a file content denotes
Document(content) == MapDoc(content, "Utf8Decode")

\* the PUT calls of the config write invocation p has issued
ConfigPuts(p) ==
    {log[p][j] : j \in {n \in DOMAIN log[p] :
                            log[p][n].api = "github" /\ log[p][n].op = "putConfig"}}

(***************************************************************************)
(* C15: the document the config writer writes is the shallow merge of the  *)
(* fetched document with the caller's fields: a top-level key the caller   *)
(* supplied has the caller's value (a nested object whole), every other    *)
(* key has the fetched value.  Refuted by a caller value with a character  *)
(* between U+0080 and U+00FF: btoa writes it as one byte, which is not     *)
(* UTF-8, and the file reads U+FFFD in its place.                          *)
(***************************************************************************)
C15_ShallowMerge ==
    \A p \in Procs :
        \A call \in ConfigPuts(p) :
            LET written == Document(call.content)
                fetched == Document(loc[p].content)
                caller == req[p].body.businessConfig.doc
            IN  /\ Keys(written) = Keys(fetched) \cup Keys(caller)
                /\ \A kv \in written :
                       IF kv[1] \in Keys(caller) THEN kv \in caller ELSE kv \in fetched

\* the number of calls of an operation of GitHub in a log
GithubCalls(events, op) ==
    Cardinality({j \in DOMAIN events : events[j].api = "github" /\ events[j].op = op})

(***************************************************************************)
(* C16: the PUT of the config write is issued only when the GET of the     *)
(* same invocation succeeded, once, and carries the sha that GET returned. *)
(* So when another writer changes the file between the GET and the PUT,    *)
(* the provider rejects the PUT, the writer gives up without fetching or   *)
(* writing again, and no update is lost: a PUT that changes the file       *)
(* replaces exactly the content it was computed from.                      *)
(***************************************************************************)
C16_ShaGuardsUpdate ==
    [][\A p \in Procs :
          LET name == RepoName(p)
          IN  /\ (pc[p] # "awaitPutConfig" /\ pc'[p] = "awaitPutConfig")
                     => /\ pc[p] = "awaitGetConfig"
                        /\ GithubCalls(log'[p], "getConfig") = 1
                        /\ GithubCalls(log'[p], "putConfig") = 1
                        /\ \A call \in pending'[p] :
                               /\ call.op = "putConfig"
                               /\ call.name = name
                               /\ call.sha = Sha(files[name])
                               /\ call.sha = loc'[p].sha
              /\ (pc[p] = "awaitPutConfig" /\ pc'[p] # "awaitPutConfig")
                     => /\ GithubCalls(log'[p], "getConfig") = 1
                        /\ GithubCalls(log'[p], "putConfig") = 1
                        /\ \A call \in pending[p] :
                               /\ Sha(files[name]) # call.sha
                                      => (files' = files /\ loc'[p].putReply = "failed")
                               /\ files' # files
                                      => /\ files[name].doc = loc[p].content
                                         /\ files'[name].doc = call.content
                                         /\ \A other \in DOMAIN files \ {name} :
                                                files'[other] = files[other]]_vars

\* another writer committed between the GET and the PUT: the PUT was
\* rejected and the file holds the other writer's edit
C16_Witness ==
    \E p \in Procs :
        /\ Responded(p)
        /\ loc[p].putReply = "failed"
        /\ loc[p].sha = Sha(TemplateFile)
        /\ files[RepoName(p)].rev = TemplateFile.rev + 1
        /\ Document(files[RepoName(p)].doc) = TemplateDoc \cup OtherEdit

\* the vercel record that the replies of the hosting provider amount to
HostingOutcome(p) ==
    IF loc[p].hostingId = "" \/ loc[p].deployReply = "none" \/ loc[p].deployLost
    THEN NoVercel
    ELSE [has |-> TRUE, projectId |-> loc[p].hostingId,
          deploymentUrl |-> IF loc[p].deployUrl # ""
                            THEN "https://" \o loc[p].deployUrl ELSE GuessedUrl(p)]

(***************************************************************************)
(* C17: a caller cannot tell a backend stage that was skipped              *)
(* (SUPABASE_ORG_ID unset) from one that was attempted and failed.  In     *)
(* both cases the hosting provider is sent the same project call, and the  *)
(* response is the same function of the request and of the replies of the  *)
(* repository and hosting providers: status 200, success true, the github  *)
(* record, no supabase field, and the vercel record those replies amount   *)
(* to.                                                                     *)
(***************************************************************************)
C17_SkippedLikeFailed ==
    \A p \in Procs :
        (/\ Responded(p)
         /\ loc[p].githubReply = "ok"
         /\ \/ "SUPABASE_ORG_ID" \notin env
            \/ loc[p].backendReply = "failed"
            \/ Issued(p, "supabase", "createProject") /\ ~result[p].supabase.has)
            => /\ resp[p] = [status |-> 200, kind |-> "result", error |-> "",
                             result |-> [success |-> TRUE,
                                         github |-> GithubRecord(p),
                                         supabase |-> NoSupabase,
                                         vercel |-> HostingOutcome(p)]]
               /\ "supabase" \notin BodyKeys(resp[p])
               /\ \A j \in DOMAIN log[p] :
                      log[p][j].api = "vercel" /\ log[p][j].op = "createProject"
                          => log[p][j] = HostingProjectCall(req[p].body.businessSlug,
                                             HtmlUrl(RepoName(p)),
                                             [VITE_SUPABASE_URL |-> "",
                                              VITE_SUPABASE_ANON_KEY |-> ""])

\* the backend creation was attempted and failed, and the deployment stage
\* went through
C17_Witness ==
    \E p \in Procs :
        /\ Responded(p)
        /\ "SUPABASE_ORG_ID" \in env
        /\ loc[p].backendReply = "failed"
        /\ resp[p].result.vercel.has

(***************************************************************************)
(* C18: every response to a POST with status 200 or 500 is a JSON object   *)
(* of the ProvisionResult shape: it carries the boolean success, and on    *)
(* 500 the error message.  Refuted by every 500 the handler sends: the     *)
(* body of a 500 is {error} alone.                                         *)
(***************************************************************************)
C18_ResponseHasSuccess ==
    \A p \in Procs :
        (/\ Responded(p)
         /\ req[p].method = "POST"
         /\ resp[p].status \in {200, 500})
            => /\ "success" \in BodyKeys(resp[p])
               /\ resp[p].status = 500 => "error" \in BodyKeys(resp[p])

\* invocation p issued a call to a provider
Called(p, api) == \E j \in DOMAIN log[p] : log[p][j].api = api

(***************************************************************************)
(* C19: with the mandatory tokens present and the repository created, the  *)
(* backend provider is called exactly when SUPABASE_ORG_ID is configured   *)
(* and the hosting provider exactly when VERCEL_TEAM_ID is, whatever the   *)
(* backend stage did; the response has no record of a stage that was       *)
(* skipped.                                                                *)
(***************************************************************************)
C19_StageGates ==
    \A p \in Procs :
        (Responded(p) /\ Admitted(p) /\ loc[p].githubReply = "ok")
            => /\ Called(p, "supabase") <=> "SUPABASE_ORG_ID" \in env
               /\ Called(p, "vercel") <=> "VERCEL_TEAM_ID" \in env
               /\ "SUPABASE_ORG_ID" \notin env => "supabase" \notin BodyKeys(resp[p])
               /\ "VERCEL_TEAM_ID" \notin env => "vercel" \notin BodyKeys(resp[p])

\* the deployment stage ran although the backend stage was skipped
C19_Witness ==
    \E p \in Procs :
        /\ Responded(p)
        /\ "SUPABASE_ORG_ID" \notin env
        /\ "VERCEL_TEAM_ID" \in env
        /\ ~Called(p, "supabase")
        /\ Issued(p, "vercel", "createDeployment")

(***************************************************************************)
(* C20: secrets are written only as a consequence of a successful backend  *)
(* creation: every secret write targets the project id that creation       *)
(* returned, comes after the api-keys query and before any call to the     *)
(* hosting provider; none is issued by an invocation whose backend stage   *)
(* was skipped or failed.                                                  *)
(***************************************************************************)
C20_SecretsFollowCreation ==
    \A p \in Procs :
        \A j \in DOMAIN log[p] :
            (log[p][j].api = "supabase" /\ log[p][j].op = "setSecret")
                => /\ "SUPABASE_ORG_ID" \in env
                   /\ loc[p].backendReply = "created"
                   /\ loc[p].keysReply # "none"
                   /\ result[p].supabase.has
                   /\ loc[p].dataId \in projects
                   /\ log[p][j].project = loc[p].dataId
                   /\ log[p][j].project = result[p].supabase.projectId
                   /\ \E i \in 1..(j - 1) :
                          log[p][i].api = "supabase" /\ log[p][i].op = "listKeys"
                   /\ \A i \in 1..(j - 1) : log[p][i].api # "vercel"

\* the four secrets were written and the deployment stage followed
C20_Witness ==
    \E p \in Procs :
        /\ Responded(p)
        /\ Len(SecretWrites(p)) = 4
        /\ Called(p, "vercel")

\* the positions of the sleeps of ms milliseconds in the log of invocation p
Sleeps(p, ms) ==
    {j \in DOMAIN log[p] : log[p][j].api = "timer" /\ log[p][j].ms = ms}

(***************************************************************************)
(* C21: the 5 second wait happens once per invocation whose repository was *)
(* generated, right after the generate call and before every other call,   *)
(* with or without a businessConfig; the 30 second wait happens only right *)
(* after a backend create-project call that succeeded and right before     *)
(* the api-keys query, never when the creation failed or the stage was     *)
(* skipped.                                                                *)
(***************************************************************************)
C21_WaitsPlaced ==
    \A p \in Procs :
        /\ Sleeps(p, 5000) = (IF loc[p].githubReply = "ok" THEN {2} ELSE {})
        /\ \A j \in DOMAIN log[p] :
               /\ (log[p][j].api = "github" /\ log[p][j].op = "generate") => j = 1
               /\ log[p][j].api = "timer" => log[p][j].ms \in {5000, 30000}
        /\ Cardinality(Sleeps(p, 30000)) <= 1
        /\ \A j \in Sleeps(p, 30000) :
               /\ j > 1
               /\ log[p][j - 1].api = "supabase"
               /\ log[p][j - 1].op = "createProject"
               /\ loc[p].backendReply = "created"
               /\ "SUPABASE_ORG_ID" \in env
               /\ j < Len(log[p]) =>
                      (log[p][j + 1].api = "supabase" /\ log[p][j + 1].op = "listKeys")
        /\ \A j \in DOMAIN log[p] :
               (log[p][j].api = "supabase" /\ log[p][j].op = "listKeys")
                   => j - 1 \in Sleeps(p, 30000)
        /\ loc[p].backendReply = "failed" => Sleeps(p, 30000) = {}

\* both waits happened in an invocation that carried a businessConfig
C21_Witness ==
    \E p \in Procs :
        /\ Responded(p)
        /\ req[p].body.businessConfig.given
        /\ Sleeps(p, 5000) # {}
        /\ Sleeps(p, 30000) # {}
        /\ Issued(p, "supabase", "listKeys")

\* the number of calls of an operation of a provider invocation p has issued
CallCount(p, api, op) ==
    Cardinality({j \in DOMAIN log[p] : log[p][j].api = api /\ log[p][j].op = op})

(***************************************************************************)
(* C22: nothing is retried.  Within one invocation the generate call, the  *)
(* config GET and PUT, the backend create-project and api-keys calls and   *)
(* the hosting create-project and create-deployment calls are each issued  *)
(* at most once, and each secret name is written at most once, whatever    *)
(* fails.                                                                  *)
(***************************************************************************)
C22_NoRetries ==
    \A p \in Procs :
        /\ CallCount(p, "github", "generate") <= 1
        /\ CallCount(p, "github", "getConfig") <= 1
        /\ CallCount(p, "github", "putConfig") <= 1
        /\ CallCount(p, "supabase", "createProject") <= 1
        /\ CallCount(p, "supabase", "listKeys") <= 1
        /\ CallCount(p, "vercel", "createProject") <= 1
        /\ CallCount(p, "vercel", "createDeployment") <= 1
        /\ \A i, j \in DOMAIN log[p] :
               (/\ log[p][i].api = "supabase" /\ log[p][i].op = "setSecret"
                /\ log[p][j].api = "supabase" /\ log[p][j].op = "setSecret"
                /\ log[p][i].name = log[p][j].name) => i = j

\* the config PUT, a secret write and the deployment trigger failed in one
\* invocation, which answered all the same
C22_Witness ==
    \E p \in Procs :
        /\ Responded(p)
        /\ loc[p].putReply = "failed"
        /\ Len(SecretWrites(p)) \in 1..3
        /\ loc[p].deployReply = "failed"

(***************************************************************************)
(* C23: provided every external call returns and the timers fire, every    *)
(* invocation ends with one HTTP response: a request received is           *)
(* eventually answered, and a response once sent stays as it is.  The      *)
(* handler has no timeout or cancellation of its own: while a call is      *)
(* pending nothing moves the invocation or sends a response but the        *)
(* return of that call.                                                    *)
(***************************************************************************)
C23_TerminatesWithOneResponse ==
    /\ \A p \in Procs :
           (pc[p] = "received") ~> (pc[p] = "done" /\ resp[p].status # 0)
    /\ [][\A p \in Procs :
              /\ resp[p].status # 0 => (resp'[p] = resp[p] \/ pc'[p] = "received")
              /\ (resp[p].status = 0 /\ resp'[p].status # 0) => pc'[p] = "done"
              /\ pc'[p] = "done" => resp'[p].status # 0
              /\ (pending[p] # {} /\ (pc'[p] # pc[p] \/ resp'[p] # resp[p]))
                     => /\ Cardinality(pending[p]) = 1
                        /\ Len(log'[p]) > Len(log[p]) \/ pc'[p] = "done"
                        /\ \A call \in pending[p] :
                               pc[p] = CASE call.op = "generate" -> "awaitGenerate"
                                         [] call.op = "getConfig" -> "awaitGetConfig"
                                         [] call.op = "putConfig" -> "awaitPutConfig"
                                         [] call.op = "listKeys" -> "awaitListKeys"
                                         [] call.op = "setSecret" -> "awaitSetSecret"
                                         [] call.op = "createDeployment" -> "awaitDeployment"
                                         [] call.api = "supabase" -> "awaitCreateProject"
                                         [] OTHER -> "awaitHostingProject"]_vars

\* an invocation that went through every call and both waits has answered
C23_Witness ==
    \E p \in Procs :
        /\ Responded(p)
        /\ resp[p].status = 200
        /\ Issued(p, "github", "putConfig")
        /\ Len(SecretWrites(p)) = 4
        /\ Issued(p, "vercel", "createDeployment")
        /\ Sleeps(p, 30000) # {}

(***************************************************************************)
(* C24: the response reports exactly the resources that exist at the       *)
(* providers because of the invocation: it has the github record iff the   *)
(* repository was created, the supabase record iff the backend project     *)
(* was, the vercel record iff the hosting project was.  Refuted by a       *)
(* backend project whose api-keys fetch rejects and by a hosting project   *)
(* whose deployment fetch rejects: the resource exists, its record is      *)
(* dropped.                                                                *)
(***************************************************************************)
C24_ResponseReportsResources ==
    \A p \in Procs :
        (Responded(p) /\ req[p].method = "POST")
            => BodyKeys(resp[p]) \cap {"github", "supabase", "vercel"} = loc[p].created

(***************************************************************************)
(* C25: the build variables sent to the hosting provider agree with the    *)
(* response: VITE_SUPABASE_URL and VITE_SUPABASE_ANON_KEY are the          *)
(* projectUrl and anonKey of the supabase record of the response when it   *)
(* has one, and both the empty string when it has none; in that case the   *)
(* hosting project is still requested, and deployed once created.          *)
(***************************************************************************)
C25_BuildVariablesAgree ==
    \A p \in Procs :
        (Responded(p) /\ Admitted(p) /\ loc[p].githubReply = "ok")
            => /\ \A j \in DOMAIN log[p] :
                      (log[p][j].api = "vercel" /\ log[p][j].op = "createProject")
                          => log[p][j].environmentVariables =
                                IF "supabase" \in BodyKeys(resp[p])
                                THEN [VITE_SUPABASE_URL |->
                                          resp[p].result.supabase.projectUrl,
                                      VITE_SUPABASE_ANON_KEY |->
                                          resp[p].result.supabase.anonKey]
                                ELSE [VITE_SUPABASE_URL |-> "",
                                      VITE_SUPABASE_ANON_KEY |-> ""]
               /\ "supabase" \in BodyKeys(resp[p])
                      => resp[p].result.supabase.projectUrl =
                            "https://" \o loc[p].dataId \o ".supabase.co"
               /\ ("supabase" \notin BodyKeys(resp[p]) /\ "VERCEL_TEAM_ID" \in env)
                      => /\ Issued(p, "vercel", "createProject")
                         /\ loc[p].hostingId # "" => Issued(p, "vercel", "createDeployment")

\* the build got the URL and the key of the backend project of the response
C25_Witness ==
    \E p \in Procs :
        /\ Responded(p)
        /\ resp[p].result.supabase.anonKey # ""
        /\ resp[p].result.vercel.has
        /\ HostingCallOf(p).environmentVariables.VITE_SUPABASE_ANON_KEY # ""

\* invocation p is past stage 1: it keeps a github record
PassedStage1(p) == result[p].github.has

(***************************************************************************)
(* C26: of two concurrent invocations for the same slug, the provider      *)
(* refusing to generate a repository whose name is taken, at most one      *)
(* passes stage 1; an invocation that does not is answered 500 having      *)
(* issued nothing but its generate call, so at most one backend project    *)
(* and one hosting project are created for the slug.                       *)
(***************************************************************************)
C26_OneWinner ==
    /\ \A p, q \in Procs : (PassedStage1(p) /\ PassedStage1(q)) => p = q
    /\ \A p \in Procs :
           (pc[p] \notin {"idle", "received", "awaitGenerate"} /\ ~PassedStage1(p))
               => /\ Responded(p)
                  /\ resp[p].status = 500
                  /\ log[p] = <<GenerateCall(RepoName(p))>>
    /\ Cardinality(projects) <= 1
    /\ Cardinality(hosting) <= 1
    /\ \A p \in Procs :
           loc[p].created \ {"github"} # {} => PassedStage1(p)

\* one invocation was refused the name and answered 500 while the other,
\* past stage 1 with its backend project, is still waiting on its deployment
C26_Witness ==
    \E p, q \in Procs :
        /\ p # q
        /\ Responded(p)
        /\ resp[p].status = 500
        /\ loc[p].githubMessage \in ProviderMessages
        /\ pc[q] = "awaitDeployment"
        /\ result[q].supabase.has

(***************************************************************************)
(* Properties of the code-editing function                                 *)
(***************************************************************************)
\* the handler answered with the outcome of the loop (lines 218-227)
ChangesAnswered == edit.pc = "done" /\ "results" \in DOMAIN edit.body

\* GitHub answered 2xx to the write of the k-th change
Written(k) ==
    \E c \in 1..Len(commits) :
        /\ commits[c].index = k
        /\ commits[c].call.method \in {"PUT", "DELETE"}
        /\ commits[c].reply = "ok"

\* C27: the response to a non-empty changes list has one results entry per
\* requested change, in request order, and its success flag is true exactly
\* when the write of every requested change was answered 2xx.
C27_ResultsMatchChanges ==
    ChangesAnswered =>
        LET changes == edit.req.changes
            results == edit.body.results
        IN  /\ Len(results) = Len(changes)
            /\ \A k \in 1..Len(changes) : results[k].path = changes[k].path
            /\ edit.body.success <=> \A k \in 1..Len(changes) : Written(k)

\* the writes GitHub received for the k-th change
WritesFor(k) ==
    {c \in 1..Len(commits) :
        commits[c].index = k /\ commits[c].call.method \in {"PUT", "DELETE"}}

\* the k-th change is a delete, create or modify that the loop is through
\* with and that was not written: its file was not found, it carried no
\* content, its content could not be encoded, or its write was not answered 2xx
ChangeFailed(k) ==
    /\ edit.req.changes[k].action \in {"delete", "create", "modify"}
    /\ edit.index > k \/ edit.pc = "done"
    /\ \E c \in 1..Len(commits) : commits[c].index = k
    /\ ~Written(k)

\* C28: changes are applied one at a time and independently.  Every write
\* GitHub receives is the one write of the change then current (a DELETE for a
\* delete, a PUT otherwise), so nothing undoes an earlier commit; a change that
\* failed has at most the one rejected write; every change after it is still
\* read; and the response is then 200 with success = false.
C28_ChangesIndependent ==
    /\ \A c \in 1..Len(commits) :
           /\ c > 1 => commits[c - 1].index <= commits[c].index
           /\ commits[c].call.path = edit.req.changes[commits[c].index].path
           /\ commits[c].call.method \in {"PUT", "DELETE"} =>
                  /\ WritesFor(commits[c].index) = {c}
                  /\ (commits[c].call.method = "DELETE") <=>
                         (edit.req.changes[commits[c].index].action = "delete")
    /\ \A k \in 1..Len(edit.req.changes) :
           ChangeFailed(k) =>
               /\ Cardinality(WritesFor(k)) <= 1
               /\ \A c \in WritesFor(k) : commits[c].reply # "ok"
               /\ edit.pc = "done" =>
                      /\ \A j \in (k + 1)..Len(edit.req.changes) :
                             \E c \in 1..Len(commits) :
                                 commits[c].index = j /\ commits[c].call.method = "GET"
                      /\ edit.status = 200
                      /\ "success" \in DOMAIN edit.body /\ ~edit.body.success

\* the first change was committed, the second was rejected by GitHub, and the
\* response says so while the file of the first change stays as committed
C28_Witness ==
    /\ edit.pc = "done"
    /\ Len(edit.req.changes) = 2
    /\ edit.req.changes[1].path # edit.req.changes[2].path
    /\ Written(1)
    /\ ChangeFailed(2)
    /\ \E c \in WritesFor(2) : commits[c].reply = "notok"
    /\ tree[edit.req.changes[1].path].content = TextB
    /\ edit.status = 200

(***************************************************************************)
(* Properties of the hero-image backfill                                   *)
(***************************************************************************)
\* the calls of invocation k that are not reads of a config file
SideEffects(k) ==
    {c \in 1..Len(media) : media[c].run = k /\ media[c].api # "GET"}

\* the entries invocation k reports with status would_generate
WouldGenerate(k) ==
    LET Reported(kind) ==
            {e \in {backfill[k].results[kind][n] :
                        n \in 1..Len(backfill[k].results[kind])} :
                e.status = "would_generate"}
    IN  {<<"services", e.name, 0>> : e \in Reported("services")}
            \cup {<<"areas", e.name, 0>> : e \in Reported("areas")}
            \cup {<<"neighborhoods", e.name, e.cityName>> : e \in Reported("neighborhoods")}

\* the entries invocation k called generateImage for
Attempted(k) ==
    {<<media[c].entry.kind, media[c].entry.name, media[c].entry.cityName>> :
        c \in {c \in 1..Len(media) :
                  media[c].run = k /\ media[c].api = "generateImage"}}

\* C29: an invocation with dryRun = true issues no image-generation call, no
\* storage upload and no GitHub PUT, only reads of the config files, and the
\* config files stay as they were, whatever the types and the files.
C29_DryRunHasNoSideEffects ==
    \A k \in Runs :
        backfill[k].dryRun =>
            /\ SideEffects(k) = {}
            /\ (\A n \in Runs : backfill[n].dryRun \/ backfill[n].pc \in {"idle", "received"})
                   => jsonFiles \in ConfigFiles

\* a dry run over all three types has answered 200, reporting a service and
\* an area it would generate, after three reads and no other call
C29_Witness ==
    /\ backfill[1].dryRun /\ backfill[1].pc = "done" /\ backfill[1].status = 200
    /\ backfill[1].types = Types
    /\ {w[1] : w \in WouldGenerate(1)} = {"services", "areas"}
    /\ Len(media) = 3
    /\ \A c \in 1..Len(media) : media[c].api = "GET"

\* C30: the dry run predicts the real run.  When a dry run and a real run of
\* the same request have read the same config files, the entries the dry run
\* reported as would_generate are the entries the real run called
\* generateImage for.
C30_DryRunPredictsRealRun ==
    (/\ backfill[1].pc = "done" /\ backfill[1].status = 200
     /\ backfill[2].pc = "done" /\ backfill[2].status = 200
     /\ backfill[1].dryRun /\ ~backfill[2].dryRun
     /\ backfill[1].types = backfill[2].types
     /\ backfill[1].forceRegenerate = backfill[2].forceRegenerate
     /\ backfill[1].read = backfill[2].read)
        => WouldGenerate(1) = Attempted(2)
====
